---- MODULE Spec2Model ----
(***************************************************************************)
(* A model of the token-management hooks of claude-lead-system:            *)
(*   hooks/token-guard.py            the spawn guard  (Task events)        *)
(*   hooks/read-efficiency-guard.py  the read guard   (Read events)        *)
(*   hooks/self-heal.py              the state-health phase of self-heal   *)
(*   hooks/hook_utils.py             lock, load, atomic save, audit append *)
(* Every hook invocation is a short-lived process; the processes share one *)
(* state directory, modelled as a map from file names to files.            *)
(***************************************************************************)
EXTENDS Integers, Sequences, FiniteSets, TLC

VARIABLES
    now,      \* the wall clock every process reads, in seconds
    fs,       \* the state directory: file name -> file
    audit,    \* the lines of audit.jsonl, oldest first
    proc,     \* per process slot: the running hook's position and locals
    runs      \* number of hook invocations started so far

vars == <<now, fs, audit, proc, runs>>

(***************************************************************************)
(* Bounds of the model.                                                    *)
(***************************************************************************)
MaxRuns == 3          \* hook invocations per behaviour
max_agents == 2       \* the configured session cap (DEFAULT_CONFIG has 5)

Procs == {1, 2}       \* process slots that may run concurrently

\* The instants the clock can show, in seconds: hooks that run together,
\* hooks that run more than STALE_LOCK_SECONDS after the files they find
\* were written, and hooks that run more than state_ttl_hours after.
Clock == {0, 400, 90000}

(***************************************************************************)
(* Program constants.                                                      *)
(***************************************************************************)
parallel_window_seconds == 30
global_cooldown_seconds == 5
max_per_subagent_type_Two == 1 + 1   \* a per-type cap of two
max_per_subagent_type == 1
state_ttl_hours == 24
BLOCKED_ATTEMPTS_TTL == 300
STALE_LOCK_SECONDS == 300
AUDIT_MAX_LINES == 10000

one_per_session ==
    {"Explore", "master-coder", "master-researcher", "master-architect",
     "master-workflow", "Plan"}
always_allowed == {"claude-code-guide", "statusline-setup", "haiku"}
audit_enabled == TRUE

(***************************************************************************)
(* Text.  TLC cannot index a string, so Chars gives the characters of the  *)
(* strings the model uses; regular expressions and slices work on them.    *)
(***************************************************************************)
Chars(s) ==
    IF s = "abcd1234" THEN
        <<"a", "b", "c", "d", "1", "2", "3", "4">>
    ELSE IF s = "abcd1234\n" THEN
        <<"a", "b", "c", "d", "1", "2", "3", "4", "\n">>
    ELSE IF s = "bad!" THEN
        <<"b", "a", "d", "!">>
    ELSE IF s = "" THEN
        <<>>
    ELSE IF s = "abc" THEN
        <<"a", "b", "c">>
    ELSE IF s = "unknown" THEN
        <<"u", "n", "k", "n", "o", "w", "n">>
    ELSE IF s = "abcd1234-reads" THEN
        <<"a", "b", "c", "d", "1", "2", "3", "4", "-", "r", "e", "a", "d", "s">>
    ELSE IF s = "abcd1234efgh" THEN
        <<"a", "b", "c", "d", "1", "2", "3", "4", "e", "f", "g", "h">>
    ELSE IF s = "refactor authentication across services" THEN
        <<"r", "e", "f", "a", "c", "t", "o", "r", " ", "a", "u", "t", "h", "e", "n", "t", "i", "c", "a", "t", "i", "o", "n", " ", "a", "c", "r", "o", "s", "s", " ", "s", "e", "r", "v", "i", "c", "e", "s">>
    ELSE IF s = "write some tests" THEN
        <<"w", "r", "i", "t", "e", " ", "s", "o", "m", "e", " ", "t", "e", "s", "t", "s">>
    ELSE IF s = "find where this helper is used across all files" THEN
        <<"f", "i", "n", "d", " ", "w", "h", "e", "r", "e", " ", "t", "h", "i", "s", " ", "h", "e", "l", "p", "e", "r", " ", "i", "s", " ", "u", "s", "e", "d", " ", "a", "c", "r", "o", "s", "s", " ", "a", "l", "l", " ", "f", "i", "l", "e", "s">>
    ELSE IF s = "fix login" THEN
        <<"f", "i", "x", " ", "l", "o", "g", "i", "n">>
    ELSE IF s = "fix logout" THEN
        <<"f", "i", "x", " ", "l", "o", "g", "o", "u", "t">>
    ELSE IF s = "first" THEN
        <<"f", "i", "r", "s", "t">>
    ELSE IF s = "second" THEN
        <<"s", "e", "c", "o", "n", "d">>
    ELSE IF s = "read the config file" THEN
        <<"r", "e", "a", "d", " ", "t", "h", "e", " ", "c", "o", "n", "f", "i", "g", " ", "f", "i", "l", "e">>
    ELSE <<>>

RECURSIVE Str(_)
Str(cs) == IF cs = <<>> THEN "" ELSE Head(cs) \o Str(Tail(cs))

\* s[:n]
Slice(s, n) ==
    LET cs == Chars(s) IN
    IF Len(cs) <= n THEN s ELSE Str(SubSeq(cs, 1, n))

\* The character class [A-Za-z0-9_-].
IdChars ==
    {"a", "b", "c", "d", "e", "f", "g", "h", "i", "j", "k", "l", "m", "n",
     "o", "p", "q", "r", "s", "t", "u", "v", "w", "x", "y", "z",
     "A", "B", "C", "D", "E", "F", "G", "H", "I", "J", "K", "L", "M", "N",
     "O", "P", "Q", "R", "S", "T", "U", "V", "W", "X", "Y", "Z",
     "0", "1", "2", "3", "4", "5", "6", "7", "8", "9", "_", "-"}

\* re.match(r'^[A-Za-z0-9_-]{8,64}$', s): k class characters, then the end
\* of the string, which `$` also finds just before one trailing newline.
SessionIdMatches(s) ==
    LET cs == Chars(s)
        n  == Len(cs)
    IN  \E k \in 8..64 :
            /\ k <= n
            /\ \A i \in 1..k : cs[i] \in IdChars
            /\ \/ k = n
               \/ k = n - 1 /\ cs[n] = "\n"

(***************************************************************************)
(* The state directory.  fs maps the name of each existing file to         *)
(*   ino    the inode (flock locks an inode, not a name; only .lock files  *)
(*          are ever locked, other files carry 0),                         *)
(*   mtime  the time of last modification,                                 *)
(*   data   the content.                                                   *)
(* A content is "empty" (a lock file), "corrupt" (text json.load rejects    *)
(* with JSONDecodeError), "binary" (bytes that are not UTF-8 text: reading *)
(* them raises UnicodeDecodeError), "state" (a spawn-guard state, in st), "reads" (a read-guard   *)
(* state, in rd) or "other" (JSON of any other shape).  Of a log, whose     *)
(* lines nothing but self-heal's rotation counts, log holds the number of  *)
(* lines it had when the behaviour began (old) and the lines appended to   *)
(* it since, each the position of its record in audit (recs).              *)
(***************************************************************************)
default_state == [agent_count |-> 0, agents |-> <<>>, blocked_attempts |-> <<>>]
\* time.time() at the instant 0 of the clock: the variable now counts the
\* seconds since the state directory was created, and a time the hooks
\* write as the number 0 (the Unix epoch) is the instant -Epoch.
Epoch == 1700000000

default_read_state == [reads |-> <<>>, last_sequential_warn |-> 0 - Epoch]

NoLog == [old |-> 0, recs |-> {}]

Data(k, st, rd) == [k |-> k, st |-> st, rd |-> rd, log |-> NoLog]
EmptyData == Data("empty", default_state, default_read_state)
CorruptData == Data("corrupt", default_state, default_read_state)
OtherData == Data("other", default_state, default_read_state)
BinaryData == Data("binary", default_state, default_read_state)
LogData(log) == [OtherData EXCEPT !.log = log]
StateData(st) == Data("state", st, default_read_state)
ReadsData(rd) == Data("reads", default_state, rd)

File(ino, mtime, data) == [ino |-> ino, mtime |-> mtime, data |-> data]

\* fs with file f created or replaced.
Put(dir, f, file) == [g \in DOMAIN dir \cup {f} |-> IF g = f THEN file ELSE dir[g]]
\* fs with file f unlinked (no change when it is already gone).
Remove(dir, f) == [g \in DOMAIN dir \ {f} |-> dir[g]]

AUDIT_LOG == "audit.jsonl"
StateFile(session_id) == session_id \o ".json"
ReadStateFile(session_id) == session_id \o "-reads.json"
LockFile(path) == path \o ".lock"
TmpFile(run) == "tmp" \o ToString(run) \o ".tmp"

(***************************************************************************)
(* str.lower() and str.split().                                            *)
(***************************************************************************)
UpperCase == <<"A", "B", "C", "D", "E", "F", "G", "H", "I", "J", "K", "L", "M",
               "N", "O", "P", "Q", "R", "S", "T", "U", "V", "W", "X", "Y", "Z">>
LowerCase == <<"a", "b", "c", "d", "e", "f", "g", "h", "i", "j", "k", "l", "m",
               "n", "o", "p", "q", "r", "s", "t", "u", "v", "w", "x", "y", "z">>

LowerChar(c) ==
    IF \E i \in 1..Len(UpperCase) : UpperCase[i] = c
    THEN LowerCase[CHOOSE i \in 1..Len(UpperCase) : UpperCase[i] = c]
    ELSE c

Lower(cs) == [i \in 1..Len(cs) |-> LowerChar(cs[i])]

WhiteSpace == {" ", "\n", "\t", "\r"}

\* The words of a character sequence: maximal runs of non-whitespace.
RECURSIVE SplitFrom(_, _, _)
SplitFrom(cs, i, word) ==
    IF i > Len(cs)
    THEN IF word = <<>> THEN <<>> ELSE <<Str(word)>>
    ELSE IF cs[i] \in WhiteSpace
         THEN IF word = <<>> THEN SplitFrom(cs, i + 1, <<>>)
              ELSE <<Str(word)>> \o SplitFrom(cs, i + 1, <<>>)
         ELSE SplitFrom(cs, i + 1, Append(word, cs[i]))

Split(cs) == SplitFrom(cs, 1, <<>>)

(***************************************************************************)
(* difflib.SequenceMatcher(None, a, b).ratio() for sequences of fewer than *)
(* 200 elements (no junk, no popular elements), as the fraction            *)
(* <<2 * matches, Len(a) + Len(b)>>.                                       *)
(***************************************************************************)
\* The longest block a[i..i+k-1] = b[j..j+k-1] inside a[alo..ahi] and
\* b[blo..bhi]; of the longest, the one earliest in a, then earliest in b.
find_longest_match(a, b, alo, ahi, blo, bhi) ==
    LET blocks ==
            {m \in (alo..ahi) \X (blo..bhi) \X (1..(ahi - alo + 1)) :
                /\ m[1] + m[3] - 1 <= ahi
                /\ m[2] + m[3] - 1 <= bhi
                /\ \A d \in 0..(m[3] - 1) : a[m[1] + d] = b[m[2] + d]}
    IN  IF blocks = {} THEN <<alo, blo, 0>>
        ELSE LET k == CHOOSE x \in {m[3] : m \in blocks} :
                          \A m \in blocks : m[3] <= x
                 i == CHOOSE x \in {m[1] : m \in {n \in blocks : n[3] = k}} :
                          \A m \in blocks : m[3] = k => x <= m[1]
                 j == CHOOSE x \in {m[2] : m \in {n \in blocks : n[3] = k /\ n[1] = i}} :
                          \A m \in blocks : (m[3] = k /\ m[1] = i) => x <= m[2]
             IN  <<i, j, k>>

\* Sum of the sizes of get_matching_blocks(): the longest block, then the
\* same to its left and to its right.
RECURSIVE matching_size(_, _, _, _, _, _)
matching_size(a, b, alo, ahi, blo, bhi) ==
    IF alo > ahi \/ blo > bhi THEN 0
    ELSE LET m == find_longest_match(a, b, alo, ahi, blo, bhi) IN
         IF m[3] = 0 THEN 0
         ELSE m[3]
              + matching_size(a, b, alo, m[1] - 1, blo, m[2] - 1)
              + matching_size(a, b, m[1] + m[3], ahi, m[2] + m[3], bhi)

ratio(a, b) ==
    IF Len(a) + Len(b) = 0 THEN <<1, 1>>
    ELSE <<2 * matching_size(a, b, 1, Len(a), 1, Len(b)), Len(a) + Len(b)>>

\* Comparisons of fractions with positive denominators.
FracGT(x, y) == x[1] * y[2] > y[1] * x[2]
FracGE(x, y) == x[1] * y[2] >= y[1] * x[2]

(***************************************************************************)
(* The necessity classifier.                                               *)
(***************************************************************************)
\* Each pattern is \b(first)\b.*\b(second)\b; on text made of letters and
\* single spaces it matches when a phrase of `first` is followed, later in
\* the text, by a word of `second`.
DIRECT_TOOL_PATTERNS == <<
    [first  |-> {<<"search">>, <<"find">>, <<"grep">>, <<"look", "for">>, <<"locate">>},
     second |-> {"file", "function", "class", "import", "usage", "pattern"},
     name   |-> "search_grep"],
    [first  |-> {<<"read">>},
     second |-> {"file", "config", "settings", "code"},
     name   |-> "read_file"],
    [first  |-> {<<"check">>, <<"verify">>, <<"confirm">>},
     second |-> {"exist", "exists", "status", "version", "content"},
     name   |-> "check_verify"],
    [first  |-> {<<"edit">>, <<"fix">>, <<"change">>, <<"update">>, <<"modify">>},
     second |-> {"line", "bug", "typo", "value"},
     name   |-> "edit_fix"],
    [first  |-> {<<"analyze">>, <<"look", "at">>, <<"examine">>, <<"inspect">>},
     second |-> {"file", "code", "function", "method"},
     name   |-> "analyze_inspect"],
    [first  |-> {<<"what", "does">>},
     second |-> {"function", "method", "class", "file", "module"},
     name   |-> "what_does"],
    [first  |-> {<<"list">>, <<"show">>, <<"display">>},
     second |-> {"files", "directories", "imports", "dependencies"},
     name   |-> "list_show"],
    [first  |-> {<<"count">>, <<"how", "many">>},
     second |-> {"files", "functions", "classes", "tests", "lines"},
     name   |-> "count_how_many"],
    [first  |-> {<<"compare">>, <<"diff">>},
     second |-> {"file", "files", "version", "versions"},
     name   |-> "compare_diff"],
    [first  |-> {<<"run">>, <<"execute">>, <<"test">>},
     second |-> {"script", "command", "test"},
     name   |-> "run_execute"]
>>

CANONICAL_DIRECT_TASKS == <<
    [words |-> <<"search", "for", "function", "in", "the", "codebase">>,
     name |-> "search_grep"],
    [words |-> <<"find", "where", "this", "function", "is", "called">>,
     name |-> "search_grep"],
    [words |-> <<"locate", "the", "definition", "of", "this", "class">>,
     name |-> "search_grep"],
    [words |-> <<"grep", "for", "all", "usages", "of", "this", "import">>,
     name |-> "search_grep"],
    [words |-> <<"find", "all", "references", "to", "this", "variable">>,
     name |-> "search_grep"],
    [words |-> <<"read", "the", "config", "file", "and", "understand", "it">>,
     name |-> "read_file"],
    [words |-> <<"look", "at", "the", "contents", "of", "this", "module">>,
     name |-> "read_file"],
    [words |-> <<"open", "the", "file", "and", "check", "what", "it", "does">>,
     name |-> "read_file"],
    [words |-> <<"examine", "this", "source", "code", "file">>,
     name |-> "read_file"],
    [words |-> <<"read", "through", "the", "settings", "and", "configuration">>,
     name |-> "read_file"],
    [words |-> <<"check", "if", "this", "file", "exists", "and", "verify", "contents">>,
     name |-> "check_verify"],
    [words |-> <<"verify", "the", "version", "number", "in", "package", "json">>,
     name |-> "check_verify"],
    [words |-> <<"confirm", "that", "the", "dependency", "is", "installed">>,
     name |-> "check_verify"],
    [words |-> <<"check", "the", "status", "of", "the", "git", "repository">>,
     name |-> "check_verify"],
    [words |-> <<"see", "if", "this", "environment", "variable", "is", "set">>,
     name |-> "check_verify"],
    [words |-> <<"fix", "the", "typo", "in", "this", "line", "of", "code">>,
     name |-> "edit_fix"],
    [words |-> <<"change", "this", "value", "in", "the", "config", "file">>,
     name |-> "edit_fix"],
    [words |-> <<"update", "the", "version", "number", "in", "the", "file">>,
     name |-> "edit_fix"],
    [words |-> <<"modify", "this", "single", "function", "to", "fix", "the", "bug">>,
     name |-> "edit_fix"],
    [words |-> <<"edit", "the", "import", "statement", "at", "the", "top">>,
     name |-> "edit_fix"],
    [words |-> <<"analyze", "this", "file", "and", "tell", "me", "what", "it", "does">>,
     name |-> "analyze_inspect"],
    [words |-> <<"look", "at", "this", "function", "and", "explain", "it">>,
     name |-> "analyze_inspect"],
    [words |-> <<"inspect", "the", "error", "handling", "in", "this", "module">>,
     name |-> "analyze_inspect"],
    [words |-> <<"examine", "how", "this", "class", "is", "structured">>,
     name |-> "analyze_inspect"],
    [words |-> <<"review", "this", "code", "and", "explain", "the", "logic">>,
     name |-> "analyze_inspect"],
    [words |-> <<"what", "does", "this", "function", "do", "exactly">>,
     name |-> "what_does"],
    [words |-> <<"explain", "what", "this", "module", "is", "responsible", "for">>,
     name |-> "what_does"],
    [words |-> <<"understand", "what", "this", "class", "handles">>,
     name |-> "what_does"],
    [words |-> <<"figure", "out", "what", "this", "method", "returns">>,
     name |-> "what_does"],
    [words |-> <<"tell", "me", "what", "this", "file", "is", "used", "for">>,
     name |-> "what_does"],
    [words |-> <<"list", "all", "the", "files", "in", "this", "directory">>,
     name |-> "list_show"],
    [words |-> <<"show", "me", "all", "the", "imports", "in", "this", "file">>,
     name |-> "list_show"],
    [words |-> <<"display", "all", "test", "files", "in", "the", "project">>,
     name |-> "list_show"],
    [words |-> <<"find", "all", "python", "files", "in", "this", "folder">>,
     name |-> "list_show"],
    [words |-> <<"list", "the", "dependencies", "in", "requirements">>,
     name |-> "list_show"],
    [words |-> <<"count", "how", "many", "test", "functions", "we", "have">>,
     name |-> "count_how_many"],
    [words |-> <<"how", "many", "files", "are", "in", "this", "directory">>,
     name |-> "count_how_many"],
    [words |-> <<"count", "the", "number", "of", "classes", "in", "the", "project">>,
     name |-> "count_how_many"],
    [words |-> <<"how", "many", "lines", "of", "code", "in", "this", "file">>,
     name |-> "count_how_many"],
    [words |-> <<"count", "all", "the", "todo", "comments", "in", "the", "codebase">>,
     name |-> "count_how_many"],
    [words |-> <<"compare", "these", "two", "files", "and", "show", "differences">>,
     name |-> "compare_diff"],
    [words |-> <<"diff", "the", "current", "version", "against", "the", "previous">>,
     name |-> "compare_diff"],
    [words |-> <<"check", "what", "changed", "between", "these", "two", "files">>,
     name |-> "compare_diff"],
    [words |-> <<"compare", "the", "old", "and", "new", "configuration", "files">>,
     name |-> "compare_diff"],
    [words |-> <<"see", "the", "differences", "in", "these", "two", "modules">>,
     name |-> "compare_diff"],
    [words |-> <<"run", "the", "test", "suite", "and", "check", "results">>,
     name |-> "run_execute"],
    [words |-> <<"execute", "this", "python", "script", "and", "see", "output">>,
     name |-> "run_execute"],
    [words |-> <<"run", "the", "linter", "on", "this", "file">>,
     name |-> "run_execute"],
    [words |-> <<"execute", "the", "build", "command", "for", "the", "project">>,
     name |-> "run_execute"],
    [words |-> <<"run", "this", "shell", "command", "and", "report", "the", "output">>,
     name |-> "run_execute"]
>>

\* A threshold of 0.5.
FUZZY_THRESHOLD_Half == <<1, 2>>

\* The threshold 0.55 as a fraction.
FUZZY_THRESHOLD == <<55, 100>>

\* re.search(pattern, combined)
PatternMatches(pat, words) ==
    \E i \in 1..Len(words), ph \in pat.first :
        /\ i + Len(ph) - 1 <= Len(words)
        /\ SubSeq(words, i, i + Len(ph) - 1) = ph
        /\ \E j \in (i + Len(ph))..Len(words) : words[j] \in pat.second

\* The best (score, entry) over the canonical bank; a later entry replaces
\* the best only with a strictly higher score.
RECURSIVE BestFuzzy(_, _, _, _)
BestFuzzy(input_words, n, best_score, best_match) ==
    IF n > Len(CANONICAL_DIRECT_TASKS) THEN <<best_score, best_match>>
    ELSE LET score == ratio(input_words, CANONICAL_DIRECT_TASKS[n].words) IN
         IF FracGT(score, best_score)
         THEN BestFuzzy(input_words, n + 1, score, n)
         ELSE BestFuzzy(input_words, n + 1, best_score, best_match)

\* check_necessity: <<should_block, pattern_name>>.
check_necessity(description, prompt_text) ==
    LET combined == Lower(Chars(description) \o <<" ">> \o Chars(prompt_text))
        words    == Split(combined)
        hits     == {n \in 1..Len(DIRECT_TOOL_PATTERNS) :
                        PatternMatches(DIRECT_TOOL_PATTERNS[n], words)}
        head     == IF Len(combined) <= 200 THEN combined
                    ELSE SubSeq(combined, 1, 200)
        fuzzy    == BestFuzzy(Split(head), 1, <<0, 1>>, 0)
    IN  IF hits # {}
        THEN <<TRUE, DIRECT_TOOL_PATTERNS[CHOOSE n \in hits : \A m \in hits : n <= m].name>>
        ELSE IF FracGE(fuzzy[1], FUZZY_THRESHOLD) /\ fuzzy[2] # 0
             THEN <<TRUE, "fuzzy_" \o CANONICAL_DIRECT_TASKS[fuzzy[2]].name>>
             ELSE <<FALSE, "">>

(***************************************************************************)
(* Events: the JSON payload a hook reads from stdin.                       *)
(*   json               "bad" (text that is not JSON), "undecodable"       *)
(*                      (bytes that stdin's decoder rejects: under the     *)
(*                      strict error handler, the default outside the C    *)
(*                      locale, json.load raises UnicodeDecodeError, a     *)
(*                      ValueError), "nonobj" (JSON, not an object) or     *)
(*                      "obj"                                              *)
(*   session_id         the id; sid_is_str is FALSE when the payload holds *)
(*                      a number there (session_id is then its rendering)  *)
(*   tool_input_is_obj  FALSE when tool_input is not a JSON object         *)
(*   team_name          "" when absent                                     *)
(***************************************************************************)
Event(json, tool, sid, sid_str, ti_obj, type, desc, resume, team, path) ==
    [json |-> json, tool_name |-> tool, session_id |-> sid,
     sid_is_str |-> sid_str, tool_input_is_obj |-> ti_obj,
     subagent_type |-> type, description |-> desc, prompt |-> "",
     resume |-> resume, team_name |-> team, file_path |-> path]

Task(sid, type, desc, team) ==
    Event("obj", "Task", sid, TRUE, TRUE, type, desc, FALSE, team, "")
Read(sid, path) ==
    Event("obj", "Read", sid, TRUE, TRUE, "", "", FALSE, "", path)

NoEvent == Event("bad", "", "", TRUE, TRUE, "", "", FALSE, "", "")

\* The descriptions and prompts of the events of the model.
Texts ==
    {"", "first", "second", "read the config file",
     "refactor authentication across services", "write some tests",
     "find where this helper is used across all files",
     "fix login", "fix logout"}

(***************************************************************************)
(* The spawn guard's decision on a loaded state (token-guard.py main, from *)
(* the prune to the allow path).  The result names the exit code, the      *)
(* audit record, the state to persist and whether it is persisted.         *)
(***************************************************************************)
Decision(exit, event, reason, pattern, st, save) ==
    [exit |-> exit, event |-> event, reason |-> reason, pattern |-> pattern,
     st |-> st, save |-> save]

NoDecision == Decision(0, "", "", "", default_state, FALSE)

\* check_necessity and the character-level similarity of R6, tabulated over
\* the texts of the model.
NecessityOf == [d \in Texts |-> [p \in Texts |-> check_necessity(d, p)]]
SimilarityOf ==
    [d \in Texts |-> [a \in Texts |-> ratio(Lower(Chars(d)), Lower(Chars(a)))]]

\* A detection that does not compare the types.
check_type_switching_AnyType(state, description, subagent_type) ==
    \E n \in 1..Len(state.blocked_attempts) :
        FracGT(SimilarityOf[description][state.blocked_attempts[n].description],
               <<6, 10>>)

\* A detection that compares the descriptions word by word.
check_type_switching_Words(state, description, subagent_type) ==
    \E n \in 1..Len(state.blocked_attempts) :
        LET attempt == state.blocked_attempts[n] IN
        /\ FracGT(ratio(Split(Lower(Chars(description))),
                        Split(Lower(Chars(attempt.description)))), <<6, 10>>)
        /\ attempt.type # subagent_type

\* A detection that does not compare the descriptions.
check_type_switching_AnyText(state, description, subagent_type) ==
    \E n \in 1..Len(state.blocked_attempts) :
        state.blocked_attempts[n].type # subagent_type

check_type_switching(state, description, subagent_type) ==
    \E n \in 1..Len(state.blocked_attempts) :
        LET attempt == state.blocked_attempts[n] IN
        /\ FracGT(SimilarityOf[description][attempt.description], <<6, 10>>)
        /\ attempt.type # subagent_type

\* A guard that keeps every blocked attempt it loads.
Prune_None(state, t) == state

Prune(state, t) ==
    [state EXCEPT !.blocked_attempts =
        SelectSeq(@, LAMBDA a : t - a.timestamp < BLOCKED_ATTEMPTS_TTL)]

\* A guard that finds only the earlier agents of the type outside a team.
SameType_NonTeam(state, type) ==
    SelectSeq(state.agents, LAMBDA a : a.type = type /\ a.team = "")

\* A guard that finds no earlier agent of the type.
SameType_None(state, type) == <<>>

\* [a for a in state["agents"] if a["type"] == subagent_type]
SameType(state, type) == SelectSeq(state.agents, LAMBDA a : a.type = type)

SeqMax(ts) == CHOOSE x \in {ts[i] : i \in 1..Len(ts)} : \A i \in 1..Len(ts) : ts[i] <= x

\* A block that gives every rule the same reason tag.
Block_OneTag(state, e, t, reason, pattern) ==
    Decision(2, "block", "blocked", pattern,
             [state EXCEPT !.blocked_attempts =
                 Append(@, [type |-> e.subagent_type,
                            description |-> e.description, timestamp |-> t])],
             TRUE)

\* A block that saves the state without a record of the attempt.
Block_NoRecord(state, e, t, reason, pattern) ==
    Decision(2, "block", reason, pattern, state, TRUE)

\* A block by one of R1-R7: the attempt is recorded and the state saved.
Block(state, e, t, reason, pattern) ==
    Decision(2, "block", reason, pattern,
             [state EXCEPT !.blocked_attempts =
                 Append(@, [type |-> e.subagent_type,
                            description |-> e.description, timestamp |-> t])],
             TRUE)

\* The allow paths: count the agent and record it.
\* An allow that records the agent without counting it.
Allow_NoCount(state, e, t, event) ==
    Decision(0, event, "", "",
             [state EXCEPT !.agents = Append(@, [type |-> e.subagent_type,
                                                 description |-> e.description,
                                                 timestamp |-> t,
                                                 team |-> e.team_name])],
             TRUE)

Allow(state, e, t, event) ==
    Decision(0, event, "", "",
             [state EXCEPT !.agent_count = @ + 1,
                           !.agents = Append(@, [type |-> e.subagent_type,
                                                 description |-> e.description,
                                                 timestamp |-> t,
                                                 team |-> e.team_name])],
             TRUE)

\* A guard without a session cap.
AtCap_Never(state) == FALSE

\* The cap test off by one: it lets one agent more through.
AtCap_Loose(state) == state.agent_count > max_agents

\* state["agent_count"] >= max_agents, the test of the team path and of R3.
AtCap(state) == state.agent_count >= max_agents

\* A cooldown that still holds after exactly global_cooldown_seconds.
InCooldown_Inclusive(elapsed) == elapsed <= global_cooldown_seconds

\* if elapsed < global_cooldown
InCooldown(elapsed) == elapsed < global_cooldown_seconds

\* A guard without the team path: team spawns go through R1-R7.
TeamSpawn_Never(e) == FALSE

\* if tool_input.get("team_name")
TeamSpawn(e) == e.team_name # ""

Rules(state, e, t, need) ==
    LET type     == e.subagent_type
        same     == SameType(state, type)
        recent   == SelectSeq(same, LAMBDA a : t - a.timestamp < parallel_window_seconds)
        non_team == SelectSeq(state.agents, LAMBDA a : a.team = "")
    IN  IF TeamSpawn(e)
        THEN IF AtCap(state)
             THEN Decision(2, "block", "team_session_cap", "", state, FALSE)
             ELSE Allow(state, e, t, "allow_team")
        ELSE IF type \in one_per_session /\ Len(same) > 0
        THEN Block(state, e, t, "one_per_session limit", "")
        ELSE IF type \notin one_per_session /\ Len(same) >= max_per_subagent_type
        THEN Block(state, e, t, "max_per_type limit", "")
        ELSE IF AtCap(state)
        THEN Block(state, e, t, "session_cap limit", "")
        ELSE IF Len(recent) > 0
        THEN Block(state, e, t, "parallel_window limit", "")
        ELSE IF need[1]
        THEN Block(state, e, t, "necessity_check", need[2])
        ELSE IF check_type_switching(state, e.description, type)
        THEN Block(state, e, t, "type_switching", "")
        ELSE IF /\ Len(non_team) > 0
                /\ InCooldown(t - SeqMax([i \in 1..Len(non_team) |-> non_team[i].timestamp]))
        THEN Block(state, e, t, "global_cooldown", "")
        ELSE Allow(state, e, t, "allow")

spawn_decision(loaded, e, t) ==
    Rules(Prune(loaded, t), e, t, NecessityOf[e.description][e.prompt])

\* audit(): the line appended to the audit log.
AuditEntry(event_type, subagent_type, description, session_id, reason, pattern) ==
    [event |-> event_type, type |-> subagent_type,
     desc |-> Slice(description, 80), session |-> Slice(session_id, 12),
     reason |-> Slice(reason, 120), pattern |-> pattern]

(***************************************************************************)
(* The read guard's decision on a loaded read state                        *)
(* (read-efficiency-guard.py main, from the prune to the allow path).      *)
(***************************************************************************)
\* A warn threshold one read later.
SEQUENTIAL_THRESHOLD_Five == 4 + 1

SEQUENTIAL_THRESHOLD == 4
ESCALATION_THRESHOLD == 15
DUPLICATE_FILE_LIMIT == 3
SEQUENTIAL_WINDOW == 120
READ_TTL == 300

ReadRecord(path, t, blocked) == [path |-> path, timestamp |-> t, blocked |-> blocked]

ReadDecision(exit, warn, rd) == [exit |-> exit, warn |-> warn, rd |-> rd]

\* A count that leaves out the attempts that were blocked.
PathCount_Unblocked(reads, path) ==
    Len(SelectSeq(reads, LAMBDA r : r.path = path /\ ~r.blocked)) + 1

\* A count of the earlier reads of the path only.
PathCount_NoAttempt(reads, path) == Len(SelectSeq(reads, LAMBDA r : r.path = path))

\* path_count: the reads of the path, this attempt included.
PathCount(reads, path) == Len(SelectSeq(reads, LAMBDA r : r.path = path)) + 1

\* A count of the earlier reads in the window only.
RecentCount_NoAttempt(reads, t) ==
    Len(SelectSeq(reads, LAMBDA r : t - r.timestamp < SEQUENTIAL_WINDOW))

\* recent_count: the reads within SEQUENTIAL_WINDOW, this attempt included.
RecentCount(reads, t) ==
    Len(SelectSeq(reads, LAMBDA r : t - r.timestamp < SEQUENTIAL_WINDOW)) + 1

\* A suppression that ends when the window is reached, not when it is past.
WarnDue_Inclusive(last_warn, t) == t - last_warn >= SEQUENTIAL_WINDOW

\* now - last_warn > SEQUENTIAL_WINDOW: the last warning is out of the window.
WarnDue(last_warn, t) == t - last_warn > SEQUENTIAL_WINDOW

read_decision(loaded, e, t) ==
    LET reads  == SelectSeq(loaded.reads, LAMBDA r : t - r.timestamp < READ_TTL)
        state  == [loaded EXCEPT !.reads = reads]
        path_count == PathCount(reads, e.file_path)
        recent_count == RecentCount(reads, t)
        blocked == [state EXCEPT !.reads = Append(@, ReadRecord(e.file_path, t, TRUE))]
        warns  == /\ recent_count >= SEQUENTIAL_THRESHOLD
                  /\ WarnDue(state.last_sequential_warn, t)
        warned == IF warns THEN [state EXCEPT !.last_sequential_warn = t] ELSE state
    IN  IF path_count >= DUPLICATE_FILE_LIMIT THEN ReadDecision(2, FALSE, blocked)
        ELSE IF recent_count >= ESCALATION_THRESHOLD THEN ReadDecision(2, FALSE, blocked)
        ELSE ReadDecision(0, warns,
                 [warned EXCEPT !.reads = Append(@, ReadRecord(e.file_path, t, FALSE))])

(***************************************************************************)
(* Processes.  A slot runs one hook at a time:                             *)
(*   "spawn"  token-guard.py main                                          *)
(*   "read"   read-efficiency-guard.py main                                *)
(*   "heal"   self-heal.py phase_state_health and the report of main       *)
(*   "append" a hook at its audit(...) call: locked_append                 *)
(* pc is the position of the hook at its next system call that other       *)
(* processes can observe or delay:                                         *)
(*   unlink   a sweep is about to unlink the file it condemned (victim)    *)
(*   sweep    a sweep is about to look at the files still to do (todo)     *)
(*   open     about to open its lock file                                  *)
(*   lock     about to flock it; the load and the rules follow at once     *)
(*   explore  (read guard) about to take the spawn guard's lock            *)
(*   replace  its temp file is written; about to os.replace, audit, exit   *)
(*   write    (append) the log is open; about to write the line            *)
(*   backup   (self-heal) about to unlink audit.jsonl.1                    *)
(*   rename   (self-heal) about to rename audit.jsonl to audit.jsonl.1     *)
(*   done     exited with code rc                                          *)
(* Steps that touch only the process's own memory are part of the step     *)
(* before them.                                                            *)
(***************************************************************************)
IdleProc ==
    [pc |-> "idle", kind |-> "none", ev |-> NoEvent, run |-> 0,
     todo |-> {}, victim |-> "", t |-> 0,
     lf |-> 0, locked |-> FALSE, af |-> 0,
     st |-> EmptyData, dec |-> NoDecision, saved |-> "none",
     rc |-> -1, na |-> 0]

\* The file a hook keeps its state in.
Target(r) ==
    IF r.kind = "read" THEN ReadStateFile(r.ev.session_id)
    ELSE IF r.kind = "append" THEN AUDIT_LOG
    ELSE StateFile(r.ev.session_id)

\* An exit that leaves the lock held.
Exited_KeepsLock(r, code) ==
    [r EXCEPT !.pc = "done", !.rc = code, !.todo = {}, !.victim = "", !.t = 0,
              !.run = 0, !.af = 0, !.st = EmptyData]

\* The process leaves with an exit code; the OS closes its lock handle.
Exited(r, code) ==
    [r EXCEPT !.pc = "done", !.rc = code, !.todo = {}, !.victim = "", !.t = 0,
              !.run = 0, !.lf = 0, !.locked = FALSE, !.af = 0, !.st = EmptyData]

\* The least inode number no directory entry and no open handle refers to.
FreshIno(dir) ==
    CHOOSE i \in 1..(Cardinality(DOMAIN dir) + 2 * Cardinality(Procs) + 1) :
        /\ \A f \in DOMAIN dir : dir[f].ino # i
        /\ \A q \in Procs : proc[q].lf # i /\ proc[q].af # i
        /\ \A j \in 1..(i - 1) :
              \/ \E f \in DOMAIN dir : dir[f].ino = j
              \/ \E q \in Procs : proc[q].lf = j \/ proc[q].af = j

\* open(path, "w") on a lock file: create it, or truncate it (the
\* truncation sets its mtime); the handle refers to the inode.
OpenW(dir, f) ==
    IF f \in DOMAIN dir THEN Put(dir, f, File(dir[f].ino, now, EmptyData))
    ELSE Put(dir, f, File(FreshIno(dir), now, EmptyData))

\* load_json_state: the parsed content, or the default when the file is
\* missing or json.load raises JSONDecodeError.  The handler does not catch
\* the UnicodeDecodeError of a file that is not text: the caller, which
\* finds no state in what it is given, ends with code 1.
load_json_state(path, default) ==
    IF path \in DOMAIN fs /\ fs[path].data.k \notin {"corrupt", "empty"}
    THEN fs[path].data
    ELSE default

\* locked_append(AUDIT_LOG, line): the sidecar lock is opened with "w",
\* locked, the line appended, the lock released.
locked_append(dir, log, entry) ==
    [fs |-> Put(OpenW(dir, LockFile(AUDIT_LOG)), AUDIT_LOG, File(0, now, OtherData)),
     audit |-> Append(log, entry)]

\* audit(...) when the audit log is enabled: the directory and the log after.
Audited(dir, log, e, event, reason, pattern) ==
    IF audit_enabled
    THEN locked_append(dir, log,
             AuditEntry(event, e.subagent_type, e.description, e.session_id,
                        reason, pattern))
    ELSE [fs |-> dir, audit |-> log]

AuditCount == IF audit_enabled THEN 1 ELSE 0

(***************************************************************************)
(* The events of the model and the names that occur in the directory.      *)
(***************************************************************************)
SID == "abcd1234"

\* Events of the concurrent specification.
SpawnEvents ==
    {Task(SID, "Explore", "first", ""),
     Task(SID, "general-purpose", "second", ""),
     Task(SID, "Explore", "first", "team-a")}

ReadEvents == {Read(SID, "/repo/auth.ts")}

SessionIds == {SID, SID \o "-reads", SID \o "\n"}

HEAL_LOG == "self-heal.jsonl"

Stems ==
    LET paths == {StateFile(s) : s \in SessionIds} \cup {ReadStateFile(s) : s \in SessionIds}
    IN  SessionIds \cup {s \o "-reads" : s \in SessionIds}
        \cup paths \cup {AUDIT_LOG} \cup {"tmp" \o ToString(r) : r \in 1..MaxRuns}

\* fname.endswith(suffix)
EndsWith(f, suffix) == \E stem \in Stems : f = stem \o suffix

(***************************************************************************)
(* The sweeps.  cleanup_stale_state (spawn guard) and phase_state_health   *)
(* (self-heal) list the directory once, then look at each file and unlink  *)
(* the ones they condemn; the look and the unlink are separate system      *)
(* calls.  A look examines the files still to do at one instant: it either *)
(* condemns one of them (the next step unlinks it) or finds none to        *)
(* condemn, which ends the sweep.                                          *)
(***************************************************************************)
\* A sweep that does not spare the audit logs.
StaleForGuard_NoExemption(r, f) == fs[f].mtime < r.t - state_ttl_hours * 3600

\* cleanup_stale_state: older than the TTL, audit logs excepted.
StaleForGuard(r, f) ==
    /\ f \notin {AUDIT_LOG, AUDIT_LOG \o ".1"}
    /\ fs[f].mtime < r.t - state_ttl_hours * 3600

\* phase_state_health: unparseable .json (JSONDecodeError or any other
\* ValueError), any .tmp, .lock older than 5 min.
CondemnedByHeal(r, f) ==
    IF EndsWith(f, ".json") /\ f # AUDIT_LOG
    THEN fs[f].data.k \in {"corrupt", "empty", "binary"}
    ELSE IF EndsWith(f, ".tmp") THEN TRUE
    ELSE IF EndsWith(f, ".lock") THEN r.t - fs[f].mtime > STALE_LOCK_SECONDS
    ELSE FALSE

Condemned(r) ==
    {f \in r.todo \cap DOMAIN fs :
        IF r.kind = "heal" THEN CondemnedByHeal(r, f) ELSE StaleForGuard(r, f)}

(***************************************************************************)
(* The payload: json.load(sys.stdin), the fields, the early exits.  An     *)
(* exception none of the handlers catches ends the process with code 1.    *)
(* The result is the process after the step, the directory and the log.    *)
(***************************************************************************)
Outcome(r, dir, log) == [proc |-> r, fs |-> dir, audit |-> log]

\* A guard without the bypass: every type goes through the rules.
Bypass_Never(e) == FALSE

\* if subagent_type in always_allowed: sys.exit(0)
Bypass(e) == e.subagent_type \in always_allowed

\* A guard that does not detect a resume.
Resumed_Never(e) == FALSE

\* if tool_input.get("resume"): the event resumes an agent
Resumed(e) == e.resume

ParseSpawn(r) ==
    LET e == r.ev IN
    \* except (json.JSONDecodeError, EOFError, ValueError)
    IF e.json \in {"bad", "undecodable"} THEN Outcome(Exited(r, 0), fs, audit)
    \* input_data.get raises on a non-object, re.match on a non-string
    ELSE IF e.json = "nonobj" \/ ~e.sid_is_str THEN Outcome(Exited(r, 1), fs, audit)
    ELSE IF ~SessionIdMatches(e.session_id) THEN Outcome(Exited(r, 2), fs, audit)
    ELSE IF e.tool_name # "Task" THEN Outcome(Exited(r, 0), fs, audit)
    \* tool_input.get raises on a non-object
    ELSE IF ~e.tool_input_is_obj THEN Outcome(Exited(r, 1), fs, audit)
    ELSE IF Bypass(e) THEN Outcome(Exited(r, 0), fs, audit)
    ELSE IF Resumed(e) THEN
        LET type == IF e.subagent_type = "" THEN "resumed" ELSE e.subagent_type
            out  == Audited(fs, audit, [e EXCEPT !.subagent_type = type],
                            "resume", "", "")
        IN  Outcome([Exited(r, 0) EXCEPT !.na = AuditCount,
                                         !.dec = [NoDecision EXCEPT !.event = "resume"]],
                    out.fs, out.audit)
    ELSE Outcome([r EXCEPT !.pc = "open"], fs, audit)

ParseRead(r) ==
    LET e == r.ev IN
    \* except (json.JSONDecodeError, EOFError)
    IF e.json = "bad" THEN Outcome(Exited(r, 0), fs, audit)
    ELSE IF e.json \in {"undecodable", "nonobj"} THEN Outcome(Exited(r, 1), fs, audit)
    ELSE IF e.tool_name # "Read" THEN Outcome(Exited(r, 0), fs, audit)
    ELSE IF ~e.tool_input_is_obj THEN Outcome(Exited(r, 1), fs, audit)
    ELSE IF e.file_path = "" THEN Outcome(Exited(r, 0), fs, audit)
    ELSE Outcome([r EXCEPT !.pc = "open"], fs, audit)

\* self-heal's report: one line appended to the heal log, exit 0.
HealReport(r) ==
    Outcome(Exited(r, 0), Put(fs, HEAL_LOG, File(0, now, OtherData)), audit)

\* line_count of a log.
Lines(file) == file.data.log.old + Cardinality(file.data.log.recs)

\* After the sweep self-heal counts the lines of audit.jsonl and rotates it
\* when there are more than AUDIT_MAX_LINES.
AfterSweep(r) ==
    IF r.kind = "heal"
    THEN IF AUDIT_LOG \in DOMAIN fs /\ Lines(fs[AUDIT_LOG]) > AUDIT_MAX_LINES
         THEN Outcome([r EXCEPT !.pc = "backup"], fs, audit)
         ELSE HealReport(r)
    ELSE IF r.kind = "read" THEN ParseRead(r)
    ELSE ParseSpawn(r)

\* One look of process p, whose record is r.
Looks(p, r) ==
    \/ \E f \in Condemned(r) :
          /\ proc' = [proc EXCEPT ![p] =
                 [r EXCEPT !.pc = "unlink", !.victim = f, !.todo = @ \ {f}]]
          /\ UNCHANGED <<fs, audit>>
    \/ /\ Condemned(r) = {}
       /\ LET out == AfterSweep([r EXCEPT !.todo = {}]) IN
          /\ proc' = [proc EXCEPT ![p] = out.proc]
          /\ fs' = out.fs
          /\ audit' = out.audit

(***************************************************************************)
(* Init: an empty state directory, no hook running.                        *)
(***************************************************************************)
Init ==
    /\ now = 0
    /\ fs = [f \in {} |-> File(0, 0, EmptyData)]
    /\ audit = <<>>
    /\ proc = [p \in Procs |-> IdleProc]
    /\ runs = 0

\* Time passes: the clock shows the next of the instants.  A hook runs for
\* milliseconds and the instants are minutes apart, so the clock stands
\* still while a hook is running.
Tick(instants) ==
    /\ \A p \in Procs : proc[p].pc \in {"idle", "done"}
    /\ \E x \in instants :
          /\ x > now
          /\ \A y \in instants : y > now => x <= y
          /\ now' = x
    /\ UNCHANGED <<fs, audit, proc, runs>>

\* The host starts a hook on an event.  The spawn guard and self-heal list
\* the directory and take the first look of their sweep; the read guard
\* has no sweep and goes to its payload.
Start(p, kind, e) ==
    /\ proc[p].pc \in {"idle", "done"}
    /\ runs < MaxRuns
    /\ runs' = runs + 1
    /\ Looks(p, [IdleProc EXCEPT !.kind = kind, !.ev = e, !.run = runs + 1,
                                 !.t = now,
                                 !.todo = IF kind = "read" THEN {} ELSE DOMAIN fs])
    /\ UNCHANGED now

\* os.unlink(fpath); an OSError (the file is gone) is swallowed.
Unlink(p) ==
    /\ proc[p].pc = "unlink"
    /\ fs' = Remove(fs, proc[p].victim)
    /\ proc' = [proc EXCEPT ![p].pc = "sweep", ![p].victim = ""]
    /\ UNCHANGED <<now, audit, runs>>

Sweep(p) ==
    /\ proc[p].pc = "sweep"
    /\ Looks(p, proc[p])
    /\ UNCHANGED <<now, runs>>

(***************************************************************************)
(* The critical section: open the lock file, flock it, load, decide, save  *)
(* (mkstemp + write, then os.replace), audit, unlock.                      *)
(***************************************************************************)
\* lf = open(lock_file, "w")
OpenLock(p) ==
    LET lock_file == LockFile(Target(proc[p])) IN
    /\ proc[p].pc = "open"
    /\ fs' = OpenW(fs, lock_file)
    /\ proc' = [proc EXCEPT ![p].pc = "lock", ![p].lf = fs'[lock_file].ino]
    /\ UNCHANGED <<now, audit, runs>>

\* flock grants the lock when no other process holds one on the same inode.
Free(p, ino) == \A q \in Procs \ {p} : ~(proc[q].locked /\ proc[q].lf = ino)

\* mkstemp(dir, suffix=".tmp") and json.dump into it.
WriteTmp(dir, r, data) == Put(dir, TmpFile(r.run), File(0, now, data))

\* The spawn guard once it holds the lock and has decided: a decision that
\* saves writes the temp file; the team cap block saves nothing, it audits
\* and exits.
Decided(r, loaded, dec) ==
    IF dec.save
    THEN Outcome([r EXCEPT !.pc = "replace", !.locked = TRUE, !.t = now,
                           !.st = loaded, !.dec = dec],
                 WriteTmp(fs, r, StateData(dec.st)), audit)
    ELSE Outcome([Exited(r, dec.exit) EXCEPT !.dec = dec, !.na = AuditCount],
                 Audited(fs, audit, r.ev, dec.event, dec.reason, dec.pattern).fs,
                 Audited(fs, audit, r.ev, dec.event, dec.reason, dec.pattern).audit)

\* A guard that stamps its records with the time it read before taking the
\* lock, at the start of its sweep.
Loaded_SweepClock(r, loaded) ==
    IF loaded.k # "state" THEN Outcome(Exited(r, 1), fs, audit)
    ELSE Decided(r, loaded, spawn_decision(loaded.st, r.ev, r.t))

\* The spawn guard from the load to the save's temp file.  A loaded object
\* without the keys of a session state raises KeyError or TypeError, which
\* nothing catches.
Loaded(r, loaded) ==
    IF loaded.k # "state" THEN Outcome(Exited(r, 1), fs, audit)
    ELSE Decided(r, loaded, spawn_decision(loaded.st, r.ev, now))

EnterSpawn(r) == Loaded(r, load_json_state(Target(r), StateData(default_state)))

\* The read guard once it holds the lock and has decided.  A block saves at
\* once; otherwise the Explore lookup comes first.
DecidedRead(r, loaded, rdec) ==
    IF rdec.exit = 2
    THEN Outcome([r EXCEPT !.pc = "replace", !.locked = TRUE, !.t = now,
                           !.st = loaded,
                           !.dec = [NoDecision EXCEPT !.exit = 2, !.save = TRUE]],
                 WriteTmp(fs, r, ReadsData(rdec.rd)), audit)
    ELSE Outcome([r EXCEPT !.pc = "explore", !.locked = TRUE, !.t = now,
                           !.st = ReadsData(rdec.rd),
                           !.dec = [NoDecision EXCEPT
                                       !.save = TRUE,
                                       !.event = IF rdec.warn THEN "warn" ELSE ""]],
                 fs, audit)

\* The read guard from the load to check 2.
LoadedRead(r, loaded) ==
    IF loaded.k # "reads" THEN Outcome(Exited(r, 1), fs, audit)
    ELSE DecidedRead(r, loaded, read_decision(loaded.rd, r.ev, now))

EnterRead(r) == LoadedRead(r, load_json_state(Target(r), ReadsData(default_read_state)))

\* lock(lf); state = load_json_state(...); now = time.time(); the rules.
Enter(p) ==
    /\ proc[p].pc = "lock"
    /\ Free(p, proc[p].lf)
    /\ \E out \in {IF proc[p].kind = "read" THEN EnterRead(proc[p])
                                             ELSE EnterSpawn(proc[p])} :
          /\ proc' = [proc EXCEPT ![p] = out.proc]
          /\ fs' = out.fs
          /\ audit' = out.audit
    /\ UNCHANGED <<now, runs>>

\* get_explore_dirs: the read guard opens the spawn guard's lock file with
\* "w", takes the lock, reads the spawn guard's state and releases it; then
\* the allowed read is recorded and the save begins.  A spawn-guard state
\* that is not text raises UnicodeDecodeError, which nothing catches: the
\* locks are released and the read guard ends with code 1.
ExploreDirs(p) ==
    LET guard_state == StateFile(proc[p].ev.session_id)
        guard_lock == LockFile(guard_state)
        opened     == OpenW(fs, guard_lock)
    IN  /\ proc[p].pc = "explore"
        /\ Free(p, opened[guard_lock].ino)
        /\ IF guard_state \in DOMAIN fs /\ fs[guard_state].data.k = "binary"
           THEN /\ fs' = opened
                /\ proc' = [proc EXCEPT ![p] = Exited(proc[p], 1)]
           ELSE /\ fs' = WriteTmp(opened, proc[p], proc[p].st)
                /\ proc' = [proc EXCEPT ![p].pc = "replace"]
        /\ UNCHANGED <<now, audit, runs>>

\* save_json_state's os.replace(tmp_path, path): the directory after, and
\* whether the save succeeded.  When the temp file is gone (a sweep took
\* it) os.replace raises, the handler's unlink fails too, and
\* save_json_state returns False.
save_json_state(dir, r) ==
    LET tmp == TmpFile(r.run) IN
    IF tmp \in DOMAIN dir
    THEN [fs |-> Put(Remove(dir, tmp), Target(r), File(0, now, dir[tmp].data)), ok |-> TRUE]
    ELSE [fs |-> dir, ok |-> FALSE]

\* What follows the save: audit(...), then the finally clauses unlock(lf),
\* lf.close(), and the exit.
Leave(p, dir, saved) ==
    LET r   == proc[p]
        out == IF r.kind = "spawn"
               THEN Audited(dir, audit, r.ev, r.dec.event, r.dec.reason, r.dec.pattern)
               ELSE [fs |-> dir, audit |-> audit]
    IN  /\ fs' = out.fs
        /\ audit' = out.audit
        /\ proc' = [proc EXCEPT ![p] =
               [Exited(r, r.dec.exit) EXCEPT
                   !.saved = saved,
                   !.na = IF r.kind = "spawn" THEN AuditCount ELSE 0]]

Commit(p) ==
    LET save == save_json_state(fs, proc[p]) IN
    /\ proc[p].pc = "replace"
    /\ Leave(p, save.fs, IF save.ok THEN "ok" ELSE "failed")
    /\ UNCHANGED <<now, runs>>

(***************************************************************************)
(* Faults: a save that fails, a hook that is killed.                       *)
(***************************************************************************)
\* A handler that forgets the temp file.
failed_save_keeps_tmp(dir, r) == dir

\* save_json_state's handler for a failure after mkstemp: the temp file is
\* unlinked (an OSError of the unlink is swallowed); the target is not
\* touched.
failed_save(dir, r) == Remove(dir, TmpFile(r.run))

\* json.dump or os.replace raises: save_json_state returns False; the hook
\* goes on to its audit record and its exit.
SaveFails(p) ==
    /\ proc[p].pc = "replace"
    /\ Leave(p, failed_save(fs, proc[p]), "failed")
    /\ UNCHANGED <<now, runs>>

\* The OS kills the hook: its lock is released, its files stay as they are.
Kill(p) ==
    /\ proc[p].pc \notin {"idle", "done"}
    /\ proc' = [proc EXCEPT ![p] = [Exited(proc[p], -1) EXCEPT !.saved = "killed"]]
    /\ UNCHANGED <<now, fs, audit, runs>>

(***************************************************************************)
(* Spec: hooks of one session running concurrently.                        *)
(***************************************************************************)
StartSpawn(p) == \E e \in SpawnEvents : Start(p, "spawn", e)
StartRead(p) == \E e \in ReadEvents : Start(p, "read", e)
StartHeal(p) == Start(p, "heal", NoEvent)

Run(p) ==
    \/ Unlink(p)
    \/ Sweep(p)
    \/ OpenLock(p)
    \/ Enter(p)
    \/ ExploreDirs(p)
    \/ Commit(p)

Next ==
    \/ Tick(Clock)
    \/ \E p \in Procs : StartSpawn(p) \/ StartRead(p) \/ StartHeal(p) \/ Run(p)

Spec == Init /\ [][Next]_vars

(***************************************************************************)
(* SpecLive: spawn guards and read guards running concurrently on two      *)
(* sessions, of which the one's spawn-state lock file is the other's       *)
(* read-state lock file (abcd1234-reads.json.lock).  Every running hook    *)
(* is scheduled: a step it can take and goes on being able to take is      *)
(* taken.                                                                  *)
(***************************************************************************)
LiveSpawn(p) ==
    \E e \in {Task(SID, "Explore", "first", ""),
               Task(SID \o "-reads", "Explore", "first", "")} :
        Start(p, "spawn", e)

LiveRead(p) ==
    \E e \in {Read(SID, "/repo/auth.ts"), Read(SID \o "-reads", "/repo/auth.ts")} :
        Start(p, "read", e)

NextLive ==
    \/ Tick({0, state_ttl_hours * 3600 + 3600})
    \/ \E p \in Procs : LiveSpawn(p) \/ LiveRead(p) \/ Run(p)

SpecLive == Init /\ [][NextLive]_vars /\ \A p \in Procs : WF_vars(Run(p))

(***************************************************************************)
(* SpecSeq: one hook at a time, on payloads of every shape.                *)
(***************************************************************************)
Payload(json, tool, sid, sid_str, ti_obj) ==
    Event(json, tool, sid, sid_str, ti_obj, "Explore", "first", FALSE, "", "/repo/auth.ts")

SeqSpawnEvents ==
    {Payload("bad", "", "", TRUE, TRUE),              \* not JSON
     Payload("undecodable", "", "", TRUE, TRUE),      \* not UTF-8
     Payload("nonobj", "", "", TRUE, TRUE),           \* []
     Payload("obj", "Task", "12345678", FALSE, TRUE), \* "session_id": 12345678
     Payload("obj", "Task", SID, TRUE, FALSE),        \* "tool_input": []
     Payload("obj", "Bash", SID, TRUE, TRUE),
     Payload("obj", "Bash", "bad!", TRUE, TRUE),
     Payload("obj", "Bash", "12345678", FALSE, TRUE),
     Task("bad!", "Explore", "first", ""),
     Task("", "Explore", "first", ""),
     Task("abc", "Explore", "first", ""),
     Task(SID \o "\n", "Explore", "first", ""),
     Task(SID \o "-reads", "Explore", "first", ""),
     Task(SID, "haiku", "first", ""),
     Event("obj", "Task", SID, TRUE, TRUE, "Explore", "first", TRUE, "", ""),
     Task(SID, "Explore", "first", ""),
     Task(SID, "Explore", "first", "team-a"),
     Task(SID, "general-purpose", "read the config file", "team-a"),
     Task(SID, "general-purpose", "read the config file", ""),
     Task(SID, "general-purpose", "find where this helper is used across all files", ""),
     Task(SID, "general-purpose", "second", "")}

SeqReadEvents ==
    {Payload("bad", "", "", TRUE, TRUE),
     Payload("undecodable", "", "", TRUE, TRUE),
     Payload("nonobj", "", "", TRUE, TRUE),
     Payload("obj", "Read", SID, TRUE, FALSE),
     Payload("obj", "Bash", SID, TRUE, TRUE),
     Read("bad!", "/repo/auth.ts"),
     Read(SID, "/repo/auth.ts")}

SeqSpawn == \E e \in SeqSpawnEvents : Start(1, "spawn", e)
SeqRead == \E e \in SeqReadEvents : Start(1, "read", e)

NextSeq ==
    \/ Tick(Clock)
    \/ SeqSpawn
    \/ SeqRead
    \/ Run(1)

SpecSeq == Init /\ [][NextSeq]_vars

(***************************************************************************)
(* SpecRules: the spawn guard, one invocation at a time, on well-formed    *)
(* Task events of one session, with a clock fine enough for the cooldown   *)
(* (5 s) and the parallel window (30 s) and coarse enough for the TTL.     *)
(***************************************************************************)
RuleClock == {0, 3, 5, 30, 90000}

RuleEvents ==
    {Task(SID, "Explore", "first", ""),
     Task(SID, "Plan", "second", ""),
     Task(SID, "general-purpose", "first", ""),
     Task(SID, "code-reviewer", "second", ""),
     Task(SID, "Explore", "first", "team-a")}

RuleSpawn == \E e \in RuleEvents : Start(1, "spawn", e)

NextRules ==
    \/ Tick(RuleClock)
    \/ RuleSpawn
    \/ Unlink(1)
    \/ Sweep(1)
    \/ OpenLock(1)
    \/ Enter(1)
    \/ Commit(1)

SpecRules == Init /\ [][NextRules]_vars

(***************************************************************************)
(* SpecScenario: the guards run, one invocation at a time, on the events   *)
(* of the end-to-end scenario in their order; the clock is free.  The      *)
(* scenario's instants 0.0, 0.1 and 0.2 s are second 0 of the clock and    *)
(* 10.0 and 10.1 s are second 10: every comparison the guards make is of   *)
(* an elapsed time with a whole number of seconds, 5 at least.             *)
(***************************************************************************)
SID12 == "abcd1234efgh"

Scenario ==
    <<[kind |-> "spawn",
       ev |-> Task(SID12, "general-purpose", "refactor authentication across services", "")],
      [kind |-> "spawn", ev |-> Task(SID12, "general-purpose", "write some tests", "")],
      [kind |-> "spawn", ev |-> Task(SID12, "Explore", "first", "")],
      [kind |-> "spawn", ev |-> Task(SID12, "Explore", "second", "")],
      [kind |-> "read", ev |-> Read(SID12, "/repo/auth.ts")],
      [kind |-> "read", ev |-> Read(SID12, "/repo/auth.ts")],
      [kind |-> "read", ev |-> Read(SID12, "/repo/auth.ts")],
      [kind |-> "spawn",
       ev |-> Event("obj", "Task", SID12, TRUE, TRUE, "general-purpose", "", TRUE, "", "")]>>

ScenarioClock == {0, 3, 10, 20}

\* The host starts the guard of the scenario's next event.
ScenarioStart ==
    /\ proc[1].pc \in {"idle", "done"}
    /\ runs < Len(Scenario)
    /\ runs' = runs + 1
    /\ Looks(1, [IdleProc EXCEPT
                    !.kind = Scenario[runs + 1].kind,
                    !.ev = Scenario[runs + 1].ev,
                    !.run = runs + 1,
                    !.t = now,
                    !.todo = IF Scenario[runs + 1].kind = "read" THEN {} ELSE DOMAIN fs])
    /\ UNCHANGED now

NextScenario ==
    \/ Tick(ScenarioClock)
    \/ ScenarioStart
    \/ OpenLock(1)
    \/ Enter(1)
    \/ ExploreDirs(1)
    \/ Commit(1)

SpecScenario == Init /\ [][NextScenario]_vars

(***************************************************************************)
(* SpecReads: the read guard, one invocation at a time, on Read events of  *)
(* one session.  Every read is of a file of its own, except that some of   *)
(* the reads may be of one shared file.                                    *)
(***************************************************************************)
MaxReads == 15        \* Read events per behaviour

ReadClock == {0, 119, 120, 300}

\* The reads that may be of the shared file.
SharedReads == {1, 2, 4, 15}

\* The paths the n-th Read event may name.
ReadPaths(n) ==
    {"/repo/file" \o ToString(n)}
        \cup (IF n \in SharedReads THEN {"/repo/auth.ts"} ELSE {})

ReadStart ==
    /\ proc[1].pc \in {"idle", "done"}
    /\ runs < MaxReads
    /\ runs' = runs + 1
    /\ \E path \in ReadPaths(runs + 1) :
          Looks(1, [IdleProc EXCEPT !.kind = "read", !.ev = Read(SID, path),
                                    !.run = runs + 1, !.t = now])
    /\ UNCHANGED now

NextReads ==
    \/ Tick(ReadClock)
    \/ ReadStart
    \/ OpenLock(1)
    \/ Enter(1)
    \/ ExploreDirs(1)
    \/ Commit(1)

SpecReads == Init /\ [][NextReads]_vars

(***************************************************************************)
(* SpecCorrupt: one hook at a time, the guards on the events of one        *)
(* session and self-heal, in a directory whose state files something other *)
(* than the hooks may damage between two runs (a crash of the machine, a   *)
(* full disk, an editor), the case load_json_state and phase_state_health  *)
(* provide for, and with a config file and smoke tests that may fail.      *)
(***************************************************************************)
\* What a damaged state file holds: text that is not JSON (a truncated
\* file), or bytes that are not text.
Damaged == {CorruptData, BinaryData}

\* A state file of the session gets damaged while no hook is running.
Damage ==
    /\ proc[1].pc \in {"idle", "done"}
    /\ \E f \in {StateFile(SID), ReadStateFile(SID)} \cap DOMAIN fs :
          \E d \in Damaged :
             /\ fs[f].data.k \in {"state", "reads"}
             /\ fs' = Put(fs, f, File(0, now, d))
    /\ UNCHANGED <<now, audit, proc, runs>>

\* What self-heal finds outside the state directory: the config file
\* (a JSON object with max_agents; missing; text that is not JSON; JSON
\* that is no object; a file that cannot be read, as one without read
\* permission or a directory; bytes that are not UTF-8 text) and the way
\* the smoke tests of the hooks end.
HealEnvs ==
    [config : {"ok", "missing", "malformed", "nonobject", "unreadable", "binary"},
     smoke  : {"pass", "fail", "timeout"}]

\* phase_structural: the handlers around the config's open and json.load
\* catch FileNotFoundError and json.JSONDecodeError; any other OSError and
\* UnicodeDecodeError leave the function, and main, which catches nothing.
phase_structural(env) ==
    IF env.config \in {"unreadable", "binary"} THEN "raise" ELSE "return"

\* phase_smoke_tests: a hook that exits with another code than expected is
\* counted as a repair; subprocess.TimeoutExpired and OSError are caught.
phase_smoke_tests(env) == "return"

\* self-heal's main: phases 1 and 2, then the sweep of phase 3.  An
\* exception that leaves main ends the process with code 1.
HealStart(p) ==
    \E env \in HealEnvs :
        IF phase_structural(env) = "raise" \/ phase_smoke_tests(env) = "raise"
        THEN /\ proc[p].pc \in {"idle", "done"}
             /\ runs < MaxRuns
             /\ runs' = runs + 1
             /\ proc' = [proc EXCEPT ![p] =
                    Exited([IdleProc EXCEPT !.kind = "heal"], 1)]
             /\ UNCHANGED <<now, fs, audit>>
        ELSE StartHeal(p)

NextCorrupt ==
    \/ Tick(Clock)
    \/ StartSpawn(1)
    \/ StartRead(1)
    \/ HealStart(1)
    \/ Damage
    \/ Run(1)

SpecCorrupt == Init /\ [][NextCorrupt]_vars

(***************************************************************************)
(* SpecRotate: hooks at their audit(...) call and self-heal runs, in a     *)
(* directory whose audit log has grown to AUDIT_MAX_LINES lines or one     *)
(* more, with or without an audit.jsonl.1 of an earlier rotation.          *)
(* locked_append is taken call by call: the sidecar lock is opened and     *)
(* locked, the log is opened for append (which creates it when there is    *)
(* none), the line is written to the file that was opened, wherever a      *)
(* rename has put it since.  The rotation takes no lock.                   *)
(***************************************************************************)
BACKUP == AUDIT_LOG \o ".1"

InitRotate ==
    /\ now = 0
    /\ \E n \in {AUDIT_MAX_LINES, AUDIT_MAX_LINES + 1} :
       \E backup \in BOOLEAN :
          LET live == Put([f \in {} |-> File(0, 0, EmptyData)], AUDIT_LOG,
                          File(1, 0, LogData([old |-> n, recs |-> {}])))
          IN  fs = IF backup
                   THEN Put(live, BACKUP,
                            File(2, 0, LogData([old |-> AUDIT_MAX_LINES + 1,
                                                recs |-> {}])))
                   ELSE live
    /\ audit = <<>>
    /\ proc = [p \in Procs |-> IdleProc]
    /\ runs = 0

\* A hook reaches audit(...) with the record of its event.
AppendStart(p) ==
    /\ proc[p].pc \in {"idle", "done"}
    /\ runs < MaxRuns
    /\ runs' = runs + 1
    /\ proc' = [proc EXCEPT ![p] =
           [IdleProc EXCEPT !.kind = "append", !.pc = "open", !.run = runs + 1,
                            !.t = now, !.ev = Task(SID, "Explore", "first", "")]]
    /\ UNCHANGED <<now, fs, audit>>

\* lock(lf); open(path, "a")
AppendOpen(p) ==
    LET opened == IF AUDIT_LOG \in DOMAIN fs THEN fs
                  ELSE Put(fs, AUDIT_LOG, File(FreshIno(fs), now, LogData(NoLog)))
    IN  /\ proc[p].kind = "append"
        /\ proc[p].pc = "lock"
        /\ Free(p, proc[p].lf)
        /\ fs' = opened
        /\ proc' = [proc EXCEPT ![p].pc = "write", ![p].locked = TRUE,
                                ![p].af = opened[AUDIT_LOG].ino]
        /\ UNCHANGED <<now, audit, runs>>

\* f.write(line), the close, unlock(lf), and the hook's exit.  The line goes
\* to the file the handle refers to; when that file has been unlinked it
\* goes with it.
AppendWrite(p) ==
    LET r    == proc[p]
        held == {f \in DOMAIN fs : fs[f].ino = r.af}
        line == Len(audit) + 1
    IN  /\ r.kind = "append"
        /\ r.pc = "write"
        /\ fs' = [f \in DOMAIN fs |->
                    IF f \in held
                    THEN File(r.af, now,
                              LogData([fs[f].data.log EXCEPT !.recs = @ \cup {line}]))
                    ELSE fs[f]]
        /\ audit' = Append(audit, AuditEntry("resume", r.ev.subagent_type,
                                              r.ev.description, r.ev.session_id, "", ""))
        /\ proc' = [proc EXCEPT ![p] = [Exited(r, 0) EXCEPT !.na = 1]]
        /\ UNCHANGED <<now, runs>>

\* if os.path.exists(backup): os.unlink(backup)
RotateBackup(p) ==
    /\ proc[p].pc = "backup"
    /\ fs' = Remove(fs, BACKUP)
    /\ proc' = [proc EXCEPT ![p].pc = "rename"]
    /\ UNCHANGED <<now, audit, runs>>

\* os.rename(audit_path, backup), whose OSError (no audit.jsonl) is
\* swallowed; then the other phases and the report.
RotateRename(p) ==
    LET moved == IF AUDIT_LOG \in DOMAIN fs
                 THEN Put(Remove(fs, AUDIT_LOG), BACKUP, fs[AUDIT_LOG])
                 ELSE fs
    IN  /\ proc[p].pc = "rename"
        /\ fs' = Put(moved, HEAL_LOG, File(0, now, OtherData))
        /\ proc' = [proc EXCEPT ![p] = Exited(proc[p], 0)]
        /\ UNCHANGED <<now, audit, runs>>

NextRotate ==
    \/ Tick(Clock)
    \/ \E p \in Procs :
          \/ AppendStart(p)
          \/ StartHeal(p)
          \/ Unlink(p)
          \/ Sweep(p)
          \/ OpenLock(p)
          \/ AppendOpen(p)
          \/ AppendWrite(p)
          \/ RotateBackup(p)
          \/ RotateRename(p)

SpecRotate == InitRotate /\ [][NextRotate]_vars

(***************************************************************************)
(* SpecFaults: one hook at a time, with saves that fail and hooks that are *)
(* killed.                                                                 *)
(***************************************************************************)
NextFaults ==
    \/ Tick(Clock)
    \/ StartSpawn(1)
    \/ StartRead(1)
    \/ StartHeal(1)
    \/ Run(1)
    \/ SaveFails(1)
    \/ Kill(1)

SpecFaults == Init /\ [][NextFaults]_vars

(***************************************************************************)
(* SpecClock: spawn guards of one session running concurrently while the   *)
(* clock goes on: time passes between any two system calls of a hook, so   *)
(* that two guards that run together read different times.                 *)
(***************************************************************************)
\* time.time() returns a later instant than the call before it.
Elapse(instants) ==
    /\ \E x \in instants :
          /\ x > now
          /\ \A y \in instants : y > now => x <= y
          /\ now' = x
    /\ UNCHANGED <<fs, audit, proc, runs>>

NextClock ==
    \/ Elapse({0, 10, 90000})
    \/ \E p \in Procs :
          StartSpawn(p) \/ Unlink(p) \/ Sweep(p) \/ OpenLock(p) \/ Enter(p) \/ Commit(p)

SpecClock == Init /\ [][NextClock]_vars

(***************************************************************************)
(* SpecCascade: the spawn guard, one invocation at a time, on Task events  *)
(* of one session that between them meet every rule of the cascade that    *)
(* the default configuration can reach, with a clock for the cooldown      *)
(* (5 s) and for the age at which a blocked attempt is pruned (300 s).     *)
(***************************************************************************)
MaxSpawns == 4        \* Task events per behaviour

CascadeEvents ==
    {Task(SID, "Explore", "first", ""),
     Task(SID, "general-purpose", "first", ""),
     Task(SID, "Plan", "fix login", ""),
     Task(SID, "code-reviewer", "fix logout", ""),
     Task(SID, "general-purpose", "read the config file", ""),
     Task(SID, "Explore", "first", "team-a"),
     Task(SID, "general-purpose", "second", "team-a")}

CascadeSpawn ==
    /\ proc[1].pc \in {"idle", "done"}
    /\ runs < MaxSpawns
    /\ runs' = runs + 1
    /\ \E e \in CascadeEvents :
          Looks(1, [IdleProc EXCEPT !.kind = "spawn", !.ev = e, !.run = runs + 1,
                                    !.t = now, !.todo = DOMAIN fs])
    /\ UNCHANGED now

NextCascade ==
    \/ Tick({0, 3, global_cooldown_seconds, BLOCKED_ATTEMPTS_TTL})
    \/ CascadeSpawn
    \/ OpenLock(1)
    \/ Enter(1)
    \/ Commit(1)

SpecCascade == Init /\ [][NextCascade]_vars

(***************************************************************************)
(* The claims.                                                             *)
(***************************************************************************)
Guards == {"spawn", "read"}

\* The whole of s matches [A-Za-z0-9_-]{8,64}.
ValidSessionId(s) ==
    /\ Len(Chars(s)) \in 8..64
    /\ \A i \in 1..Len(Chars(s)) : Chars(s)[i] \in IdChars

\* The session-state and read-state files.
TargetNames ==
    {StateFile(s) : s \in SessionIds} \cup {ReadStateFile(s) : s \in SessionIds}

\* File f is the same before and after the step.
Same(f) ==
    /\ (f \in DOMAIN fs) <=> (f \in DOMAIN fs')
    /\ f \in DOMAIN fs => fs'[f] = fs[f]

\* The step creates no file and modifies none.
NothingWritten == \A f \in DOMAIN fs' : f \in DOMAIN fs /\ fs'[f] = fs[f]

\* C1: every persisted session state has agent_count <= max_agents and
\* len(agents) <= max_agents, in every interleaving; a team spawn is counted
\* (agent_count + 1) and is allowed only below the cap.
C1_SessionCap ==
    /\ \A f \in DOMAIN fs :
          fs[f].data.k = "state" =>
              /\ fs[f].data.st.agent_count <= max_agents
              /\ Len(fs[f].data.st.agents) <= max_agents
    /\ \A p \in Procs :
          (proc[p].pc = "replace" /\ proc[p].dec.event = "allow_team") =>
              /\ proc[p].st.st.agent_count < max_agents
              /\ proc[p].dec.st.agent_count = proc[p].st.st.agent_count + 1

\* The session is at its cap, a team agent is among the counted ones, and a
\* team spawn has been blocked by the cap.
C1_Witness ==
    /\ StateFile(SID) \in DOMAIN fs
    /\ fs[StateFile(SID)].data.k = "state"
    /\ fs[StateFile(SID)].data.st.agent_count = max_agents
    /\ \E i \in 1..Len(fs[StateFile(SID)].data.st.agents) :
          fs[StateFile(SID)].data.st.agents[i].team # ""
    /\ \E p \in Procs :
          proc[p].pc = "done" /\ proc[p].dec.reason = "team_session_cap"

\* The allow records of type t for session s in the audit log.
AllowsOf(t, s) ==
    {i \in 1..Len(audit) :
        /\ audit[i].event = "allow"
        /\ audit[i].type = t
        /\ audit[i].session = Slice(s, 12)}

\* C2: for every session and every type t in one_per_session, the audit log
\* holds at most one record with event "allow" and type t.
C2_OnePerSession ==
    \A t \in one_per_session, s \in SessionIds : Cardinality(AllowsOf(t, s)) <= 1

\* The record of the agent a decision allowed.
Allowed(d) == d.st.agents[Len(d.st.agents)]

\* C3: no allowed spawn's record is lost to a concurrent write: once a spawn
\* guard has allowed a spawn and saved it, the record is in the persisted
\* session state for as long as the state is younger than state_ttl_hours
\* (as it is after every serial execution of the same events).
C3_NoLostRecord ==
    \A p \in Procs :
        (/\ proc[p].pc = "done"
         /\ proc[p].kind = "spawn"
         /\ proc[p].saved = "ok"
         /\ proc[p].dec.event \in {"allow", "allow_team"}
         /\ now - Allowed(proc[p].dec).timestamp < state_ttl_hours * 3600)
        => /\ Target(proc[p]) \in DOMAIN fs
           /\ fs[Target(proc[p])].data.k = "state"
           /\ \E i \in 1..Len(fs[Target(proc[p])].data.st.agents) :
                 fs[Target(proc[p])].data.st.agents[i] = Allowed(proc[p].dec)

\* The process has loaded its state file and not yet saved it.
InWindow(p) == proc[p].pc \in {"explore", "replace"}

\* C4: at any instant at most one hook process is inside the
\* load-modify-save window of a given session-state or read-state file.
C4_MutualExclusion ==
    \A p, q \in Procs :
        (p # q /\ InWindow(p) /\ InWindow(q)) => Target(proc[p]) # Target(proc[q])

\* A Task event with a valid session id and a type outside always_allowed.
Qualifies(e) ==
    /\ e.json = "obj"
    /\ e.tool_name = "Task"
    /\ e.sid_is_str
    /\ ValidSessionId(e.session_id)
    /\ e.tool_input_is_obj
    /\ e.subagent_type \notin always_allowed

\* C5: with the audit log enabled, a spawn guard that has run on a
\* qualifying Task event has appended exactly one audit record.
C5_ExactlyOneRecord ==
    \A p \in Procs :
        (proc[p].pc = "done" /\ proc[p].kind = "spawn" /\ Qualifies(proc[p].ev))
        => proc[p].na = 1

\* C6: a state file is at every instant absent or a complete state; a save
\* that fails or a hook that is killed during the save leaves the target as
\* it was, and a failed save leaves no temp file and does not raise (the
\* hook exits with the code of its decision).
C6_AtomicSave ==
    /\ [](\A f \in TargetNames \cap DOMAIN fs : fs[f].data.k \in {"state", "reads"})
    /\ [][\A p \in Procs :
            (/\ proc[p].pc = "replace"
             /\ proc'[p].pc = "done"
             /\ proc'[p].saved \in {"failed", "killed"})
            => /\ Same(Target(proc[p]))
               /\ proc'[p].saved = "failed" =>
                     /\ TmpFile(proc[p].run) \notin DOMAIN fs'
                     /\ proc'[p].rc = proc[p].dec.exit]_vars

\* The save of an allowed second spawn has failed: the state file still
\* holds the first spawn only.
C6_Witness ==
    /\ proc[1].pc = "done"
    /\ proc[1].kind = "spawn"
    /\ proc[1].saved = "failed"
    /\ proc[1].dec.event = "allow_team"
    /\ proc[1].dec.st.agent_count = 2
    /\ StateFile(SID) \in DOMAIN fs
    /\ fs[StateFile(SID)].data.k = "state"
    /\ fs[StateFile(SID)].data.st.agent_count = 1

\* C7: the spawn guard and the read guard end with exit code 0 or 2 on every
\* payload and every state file content.
C7_ExitCodes ==
    \A p \in Procs :
        (proc[p].pc = "done" /\ proc[p].kind \in Guards) => proc[p].rc \in {0, 2}

\* stdin that json.load cannot parse.
Unparseable(e) == e.json \in {"bad", "undecodable"}

\* C8: on stdin that is not parseable JSON both guards exit 0, and no step
\* of theirs writes a file or an audit record.
C8_FailOpen ==
    /\ [](\A p \in Procs :
            (proc[p].pc = "done" /\ proc[p].kind \in Guards /\ Unparseable(proc[p].ev))
            => proc[p].rc = 0)
    /\ [][\A p \in Procs :
            (/\ proc'[p] # proc[p]
             /\ proc'[p].kind \in Guards
             /\ Unparseable(proc'[p].ev))
            => audit' = audit /\ NothingWritten]_vars

\* C9: a spawn-guard event whose session id (a string) does not match
\* [A-Za-z0-9_-]{8,64} exits 2, and no session-state file, lock file or
\* audit record is created for it.
C9_InvalidIdRejected ==
    \A p \in Procs :
        (/\ proc[p].pc = "done"
         /\ proc[p].kind = "spawn"
         /\ proc[p].ev.json = "obj"
         /\ proc[p].ev.sid_is_str
         /\ ~ValidSessionId(proc[p].ev.session_id))
        => /\ proc[p].rc = 2
           /\ proc[p].na = 0
           /\ StateFile(proc[p].ev.session_id) \notin DOMAIN fs
           /\ LockFile(StateFile(proc[p].ev.session_id)) \notin DOMAIN fs

\* The step is one of a spawn guard running on an event that is not a Task.
NonTaskStep(p) ==
    /\ proc'[p] # proc[p]
    /\ proc'[p].kind = "spawn"
    /\ proc'[p].ev.json = "obj"
    /\ proc'[p].ev.tool_name # "Task"

Lightweight(e) ==
    /\ e.json = "obj"
    /\ e.tool_name = "Task"
    /\ e.sid_is_str
    /\ ValidSessionId(e.session_id)
    /\ e.tool_input_is_obj
    /\ e.subagent_type \in always_allowed

\* The step is one of a spawn guard running on such an event.
LightweightStep(p) ==
    /\ proc'[p] # proc[p]
    /\ proc'[p].kind = "spawn"
    /\ Lightweight(proc'[p].ev)

\* C11 as stated: a Task event with a valid session id and a type in
\* always_allowed exits 0 in every session state, and no step of the guard
\* changes the session-state file or the audit log.
C11_Unchanged ==
    /\ [](\A p \in Procs :
            (proc[p].pc = "done" /\ proc[p].kind = "spawn" /\ Lightweight(proc[p].ev))
            => proc[p].rc = 0)
    /\ [][\A p \in Procs :
            LightweightStep(p) =>
                /\ Same(StateFile(proc'[p].ev.session_id))
                /\ audit' = audit]_vars

\* C11 amended: such an event exits 0 in every session state and writes no
\* file and no audit record; the session-state file stays as it is unless
\* it is older than state_ttl_hours, in which case the stale sweep, which
\* runs before the bypass, deletes it.
C11_BypassSweepOnly ==
    /\ [](\A p \in Procs :
            (proc[p].pc = "done" /\ proc[p].kind = "spawn" /\ Lightweight(proc[p].ev))
            => proc[p].rc = 0 /\ proc[p].na = 0)
    /\ [][\A p \in Procs :
            LightweightStep(p) =>
                /\ audit' = audit
                /\ NothingWritten
                /\ \A f \in DOMAIN fs \ DOMAIN fs' :
                      /\ f \notin {AUDIT_LOG, AUDIT_LOG \o ".1"}
                      /\ fs[f].mtime < now - state_ttl_hours * 3600]_vars

\* A haiku spawn has exited 0 in a session at its cap: the state file still
\* counts max_agents agents and the audit log holds their two records only.
C11_Witness ==
    /\ proc[1].pc = "done"
    /\ proc[1].kind = "spawn"
    /\ proc[1].ev.subagent_type = "haiku"
    /\ proc[1].rc = 0
    /\ StateFile(SID) \in DOMAIN fs
    /\ fs[StateFile(SID)].data.k = "state"
    /\ fs[StateFile(SID)].data.st.agent_count = max_agents
    /\ Len(audit) = max_agents

\* A Task event with a valid session id, a type outside always_allowed and
\* a truthy tool_input.resume.
Resumes(e) == Qualifies(e) /\ e.resume

\* The step is one of a spawn guard running on such an event.
ResumeStep(p) ==
    /\ proc'[p] # proc[p]
    /\ proc'[p].kind = "spawn"
    /\ Resumes(proc'[p].ev)

\* The step appends one audit record, with event "resume", or none when it
\* is not the guard's last.
ResumeAudit(p) ==
    IF proc'[p].pc = "done"
    THEN /\ Len(audit') = Len(audit) + 1
         /\ SubSeq(audit', 1, Len(audit)) = audit
         /\ audit'[Len(audit')].event = "resume"
         /\ audit'[Len(audit')].type = proc'[p].ev.subagent_type
    ELSE audit' = audit

\* C12 as stated: a resume event exits 0 in every session state, appends
\* one audit record with event "resume", and no step of the guard changes
\* the session-state file.
C12_ResumeUnchanged ==
    /\ [](\A p \in Procs :
            (proc[p].pc = "done" /\ proc[p].kind = "spawn" /\ Resumes(proc[p].ev))
            => proc[p].rc = 0)
    /\ [][\A p \in Procs :
            ResumeStep(p) =>
                /\ ResumeAudit(p)
                /\ Same(StateFile(proc'[p].ev.session_id))]_vars

\* C12 amended: a resume event exits 0 in every session state and appends
\* one audit record with event "resume"; the guard writes no file but the
\* audit log and its lock, and the session-state file stays as it is
\* unless it is older than state_ttl_hours, in which case the stale sweep,
\* which runs before the resume detection, deletes it.
C12_ResumeSweepOnly ==
    /\ [](\A p \in Procs :
            (proc[p].pc = "done" /\ proc[p].kind = "spawn" /\ Resumes(proc[p].ev))
            => proc[p].rc = 0 /\ proc[p].na = 1)
    /\ [][\A p \in Procs :
            ResumeStep(p) =>
                /\ ResumeAudit(p)
                /\ \A f \in DOMAIN fs' \ {AUDIT_LOG, LockFile(AUDIT_LOG)} :
                      f \in DOMAIN fs /\ fs'[f] = fs[f]
                /\ \A f \in DOMAIN fs \ DOMAIN fs' :
                      /\ f \notin {AUDIT_LOG, AUDIT_LOG \o ".1"}
                      /\ fs[f].mtime < now - state_ttl_hours * 3600]_vars

\* A resume of an Explore agent has exited 0 in a session at its cap whose
\* Explore agent was spawned in the same instant: the state file still
\* counts max_agents agents, and the last audit record is the resume.
C12_Witness ==
    /\ proc[1].pc = "done"
    /\ proc[1].kind = "spawn"
    /\ proc[1].ev.resume
    /\ proc[1].rc = 0
    /\ StateFile(SID) \in DOMAIN fs
    /\ fs[StateFile(SID)].data.k = "state"
    /\ fs[StateFile(SID)].data.st.agent_count = max_agents
    /\ fs[StateFile(SID)].data.st.agents[1].type = "Explore"
    /\ fs[StateFile(SID)].data.st.agents[1].timestamp = now
    /\ Len(audit) = max_agents + 1
    /\ audit[Len(audit)].event = "resume"

\* A non-resume Task event with team_name set that reaches the rules.
TeamEvent(e) == Qualifies(e) /\ ~e.resume /\ e.team_name # ""

\* The last audit record is one of the guard's event, for its event.
LastAudit(log, e, event, reason) ==
    /\ Len(log) > 0
    /\ log[Len(log)].event = event
    /\ log[Len(log)].type = e.subagent_type
    /\ log[Len(log)].reason = reason

\* C13: a team spawn that finds a session state is blocked if and only if
\* the state's agent_count >= max_agents (reason team_session_cap, state
\* file untouched); otherwise, whatever R1, R2 and R4-R7 would say, it is
\* allowed: agent_count + 1, one agent record carrying the team name
\* appended, and, once saved, an allow_team audit record and exit 0.
C13_TeamCapOnly ==
    [][\A p \in Procs :
        (/\ proc[p].kind = "spawn"
         /\ TeamEvent(proc[p].ev)
         /\ proc'[p] # proc[p])
        => /\ proc[p].pc = "lock" =>
                LET e      == proc[p].ev
                    loaded == load_json_state(Target(proc[p]), StateData(default_state))
                IN  loaded.k = "state" =>
                    IF loaded.st.agent_count >= max_agents
                    THEN /\ proc'[p].pc = "done"
                         /\ proc'[p].rc = 2
                         /\ LastAudit(audit', e, "block", "team_session_cap")
                         /\ Len(audit') = Len(audit) + 1
                         /\ Same(Target(proc[p]))
                    ELSE /\ proc'[p].pc = "replace"
                         /\ proc'[p].dec.exit = 0
                         /\ proc'[p].dec.event = "allow_team"
                         /\ proc'[p].dec.st.agent_count = loaded.st.agent_count + 1
                         /\ proc'[p].dec.st.agents =
                                Append(loaded.st.agents,
                                       [type |-> e.subagent_type,
                                        description |-> e.description,
                                        timestamp |-> now,
                                        team |-> e.team_name])
                         /\ audit' = audit
           /\ proc[p].pc = "replace" =>
                /\ proc'[p].pc = "done"
                /\ proc'[p].rc = 0
                /\ fs'[Target(proc[p])].data = StateData(proc[p].dec.st)
                /\ LastAudit(audit', proc[p].ev, "allow_team", "")
                /\ Len(audit') = Len(audit) + 1]_vars

\* A team spawn of an Explore agent has been allowed and saved in the
\* instant in which the session's first Explore agent was spawned, where
\* R1, R4 and R7 block a spawn that is not a team's.
C13_Witness ==
    /\ proc[1].pc = "done"
    /\ proc[1].kind = "spawn"
    /\ proc[1].ev.team_name = "team-a"
    /\ proc[1].rc = 0
    /\ StateFile(SID) \in DOMAIN fs
    /\ fs[StateFile(SID)].data.k = "state"
    /\ fs[StateFile(SID)].data.st.agent_count = 2
    /\ fs[StateFile(SID)].data.st.agents[1] =
           [type |-> "Explore", description |-> "first", timestamp |-> now, team |-> ""]
    /\ fs[StateFile(SID)].data.st.agents[2] =
           [type |-> "Explore", description |-> "first", timestamp |-> now, team |-> "team-a"]
    /\ audit[Len(audit)].event = "allow_team"

(***************************************************************************)
(* The rules (C14-C17), one invocation at a time.                          *)
(***************************************************************************)
\* The session state a spawn guard finds for session s: the content of the
\* session-state file, or the default state when there is none.
Persisted(s) ==
    IF StateFile(s) \in DOMAIN fs /\ fs[StateFile(s)].data.k = "state"
    THEN fs[StateFile(s)].data.st
    ELSE default_state

\* The agent records of type t in a state.
AgentsOf(state, t) == {i \in 1..Len(state.agents) : state.agents[i].type = t}

\* The step in which spawn guard p takes the lock, loads the state and
\* applies the rules to a non-resume event that reaches them.
Deciding(p) ==
    /\ proc[p].kind = "spawn"
    /\ proc[p].pc = "lock"
    /\ proc'[p] # proc[p]
    /\ Qualifies(proc[p].ev)
    /\ ~proc[p].ev.resume

\* The number of spawns the audit log records as allowed for session s.
AllowedSpawns(s) ==
    Cardinality({i \in 1..Len(audit) :
                    /\ audit[i].event \in {"allow", "allow_team"}
                    /\ audit[i].session = Slice(s, 12)})

\* The decision of the step is a block with the given reason.
BlockedFor(p, reason) ==
    /\ proc'[p].dec.exit = 2
    /\ proc'[p].dec.event = "block"
    /\ proc'[p].dec.reason = reason

RestrictedSpawn(p) ==
    /\ Deciding(p)
    /\ proc[p].ev.team_name = ""
    /\ proc[p].ev.subagent_type \in one_per_session

RepeatedSpawn(p) ==
    /\ Deciding(p)
    /\ proc[p].ev.team_name = ""
    /\ proc[p].ev.subagent_type \notin one_per_session
    /\ AgentsOf(Persisted(proc[p].ev.session_id), proc[p].ev.subagent_type) # {}

NonTeam(state) == {i \in 1..Len(state.agents) : state.agents[i].team = ""}

\* The decision concerns a spawn outside a team that no rule before R7
\* blocks: its type is outside one_per_session and not yet used in the
\* session, the cap is not reached, and neither the necessity classifier
\* nor the type-switching detection matches its description.
UpToCooldown(p) ==
    LET e     == proc[p].ev
        state == Persisted(e.session_id)
    IN  /\ Deciding(p)
        /\ e.team_name = ""
        /\ e.subagent_type \notin one_per_session
        /\ AgentsOf(state, e.subagent_type) = {}
        /\ state.agent_count < max_agents
        /\ ~NecessityOf[e.description][e.prompt][1]
        /\ ~check_type_switching(Prune(state, now), e.description, e.subagent_type)

StampedAt(d, t) ==
    LET state == Persisted(SID12) IN
    \/ \E i \in 1..Len(state.agents) :
          state.agents[i].description = d /\ state.agents[i].timestamp = t
    \/ \E i \in 1..Len(state.blocked_attempts) :
          /\ state.blocked_attempts[i].description = d
          /\ state.blocked_attempts[i].timestamp = t

\* The read records of session s: the content of its read-state file.
ReadsIn(s) ==
    IF /\ ReadStateFile(s) \in DOMAIN fs
       /\ fs[ReadStateFile(s)].data.k = "reads"
    THEN fs[ReadStateFile(s)].data.rd.reads
    ELSE <<>>

\* The read records of the scenario's session.
ReadsOf == ReadsIn(SID12)

\* The guard of the scenario's i-th event has exited, and the events so far
\* came at the scenario's instants: the Task events at 0.0, 0.1, 0.2 and
\* 10.0 s, the three Reads at 10.1 s, the resume at 20.0 s.
OnScript(i) ==
    /\ runs = i
    /\ proc[1].pc = "done"
    /\ StampedAt("refactor authentication across services", 0)
    /\ i >= 2 => StampedAt("write some tests", 0)
    /\ i >= 3 => StampedAt("first", 0)
    /\ i >= 4 => StampedAt("second", 10)
    /\ \A k \in 1..3 :
          i >= 4 + k => Len(ReadsOf) >= k /\ ReadsOf[k].timestamp = 10
    /\ i = 8 => now = 20

AfterFour ==
    [agent_count |-> 2,
     agents |->
        <<[type |-> "general-purpose",
           description |-> "refactor authentication across services",
           timestamp |-> 0, team |-> ""],
          [type |-> "Explore", description |-> "second",
           timestamp |-> 10, team |-> ""]>>,
     blocked_attempts |->
        <<[type |-> "general-purpose", description |-> "write some tests",
           timestamp |-> 0],
          [type |-> "Explore", description |-> "first", timestamp |-> 0]>>]

\* The outcomes of the scenario's events as the guards produce them.
OutcomesAsRun ==
    /\ OnScript(1) =>
          /\ proc[1].rc = 0
          /\ proc[1].dec.event = "allow"
          /\ Persisted(SID12).agent_count = 1
    /\ OnScript(2) =>
          proc[1].rc = 2 /\ proc[1].dec.reason = "max_per_type limit"
    /\ OnScript(3) =>
          proc[1].rc = 2 /\ proc[1].dec.reason = "global_cooldown"
    /\ OnScript(4) =>
          /\ proc[1].rc = 0
          /\ proc[1].dec.event = "allow"
          /\ Persisted(SID12) = AfterFour
    /\ OnScript(5) => proc[1].rc = 0
    /\ OnScript(6) => proc[1].rc = 0
    /\ OnScript(7) =>
          /\ proc[1].rc = 2
          /\ Len(ReadsOf) = 3
          /\ ReadsOf[3].blocked
          /\ Persisted(SID12) = AfterFour
    /\ OnScript(8) =>
          /\ proc[1].rc = 0
          /\ Persisted(SID12) = AfterFour
          /\ [i \in 1..Len(audit) |-> audit[i].event] =
                 <<"allow", "block", "block", "allow", "resume">>

ReadDeciding(p) ==
    /\ proc[p].kind = "read"
    /\ proc[p].pc = "lock"
    /\ proc'[p] # proc[p]

\* The records of the session's earlier reads of the path the guard is
\* asked for, among those at most `age` seconds old.
EarlierOfPath(p, age) ==
    LET reads == ReadsIn(proc[p].ev.session_id) IN
    {i \in 1..Len(reads) :
        reads[i].path = proc[p].ev.file_path /\ now - reads[i].timestamp < age}

\* The records of the session's earlier reads in the sequential window.
EarlierInWindow(p) ==
    LET reads == ReadsIn(proc[p].ev.session_id) IN
    {i \in 1..Len(reads) : now - reads[i].timestamp < SEQUENTIAL_WINDOW}

\* The read is blocked: the attempt is recorded as blocked, exit 2.
ReadBlocked(p) ==
    /\ proc'[p].pc = "replace"
    /\ proc'[p].dec.exit = 2
    /\ LET saved == fs'[TmpFile(proc[p].run)].data.rd.reads IN
          saved[Len(saved)] = ReadRecord(proc[p].ev.file_path, now, TRUE)

\* The read is allowed.
ReadAllowed(p) == proc'[p].pc = "explore" /\ proc'[p].dec.exit = 0

\* C19 as stated, on the records of the read-state file: a Read of a path
\* of which the session has two earlier reads on record is blocked, and a
\* Read of a path with fewer is allowed, whatever the age of the records
\* and whatever the other reads.
C19_ThirdReadBlocked ==
    [][\A p \in Procs :
        ReadDeciding(p) =>
            IF Cardinality(EarlierOfPath(p, state_ttl_hours * 3600)) >= 2
            THEN ReadBlocked(p)
            ELSE ReadAllowed(p)]_vars

\* C19 amended: the third Read of a path is blocked with exit 2 when the
\* two earlier reads of it are less than READ_TTL (300 s) old, whatever
\* other reads happen in between; records older than READ_TTL are dropped
\* and no longer count, and every younger record is kept by every save.
\* The first two reads of a path are allowed unless the sequential check
\* blocks them, as the fifteenth read within SEQUENTIAL_WINDOW.
C19_ThirdReadWithinTTL ==
    /\ [][\A p \in Procs :
            ReadDeciding(p) =>
                IF Cardinality(EarlierOfPath(p, READ_TTL)) >= 2
                THEN ReadBlocked(p)
                ELSE IF Cardinality(EarlierInWindow(p)) + 1 < ESCALATION_THRESHOLD
                THEN ReadAllowed(p)
                ELSE ReadBlocked(p)]_vars
    /\ [][\A i \in 1..Len(ReadsIn(SID)) :
            now - ReadsIn(SID)[i].timestamp < READ_TTL =>
                \E j \in 1..Len(ReadsIn(SID)') : ReadsIn(SID)'[j] = ReadsIn(SID)[i]]_vars
    /\ [](\A p \in Procs :
            (proc[p].pc = "done" /\ proc[p].kind = "read") => proc[p].rc = proc[p].dec.exit)

\* The third read of /repo/auth.ts, 120 s after the first two and with a
\* read of another file in between, has been blocked.
C19_Witness ==
    /\ proc[1].pc = "done"
    /\ proc[1].kind = "read"
    /\ proc[1].rc = 2
    /\ runs = 4
    /\ now = 120
    /\ ReadsIn(SID) =
           <<ReadRecord("/repo/auth.ts", 0, FALSE),
             ReadRecord("/repo/auth.ts", 0, FALSE),
             ReadRecord("/repo/file3", 119, FALSE),
             ReadRecord("/repo/auth.ts", 120, TRUE)>>

\* C20: a Read that comes when fourteen earlier reads of the session are
\* less than 120 s old, the fifteenth within 120 seconds, is blocked with
\* exit 2; with fewer than fourteen, a Read is blocked only by the
\* duplicate-path check (two earlier reads of its path), never by the
\* sequential check.  Every read, allowed or blocked, is recorded with its
\* time by the save that ends it.
C20_FifteenthBlocked ==
    /\ [][\A p \in Procs :
            ReadDeciding(p) =>
                /\ Cardinality(EarlierInWindow(p)) + 1 >= 15 => ReadBlocked(p)
                /\ (Cardinality(EarlierInWindow(p)) + 1 < 15 /\ ~ReadAllowed(p)) =>
                       /\ ReadBlocked(p)
                       /\ Cardinality(EarlierOfPath(p, READ_TTL)) >= 2]_vars
    /\ [][\A p \in Procs :
            (proc[p].kind = "read" /\ proc[p].pc = "replace" /\ proc'[p].pc = "done")
            => LET reads == ReadsIn(proc[p].ev.session_id)' IN
               /\ Len(reads) > 0
               /\ reads[Len(reads)].path = proc[p].ev.file_path
               /\ reads[Len(reads)].timestamp = now
               /\ reads[Len(reads)].blocked = (proc'[p].rc = 2)
               /\ proc'[p].rc \in {0, 2}]_vars

\* Fifteen reads of fifteen files within 119 s: the first fourteen were
\* allowed, the fifteenth has been blocked.
C20_Witness ==
    /\ proc[1].pc = "done"
    /\ proc[1].kind = "read"
    /\ proc[1].rc = 2
    /\ runs = 15
    /\ now = 119
    /\ Len(ReadsIn(SID)) = 15
    /\ ReadsIn(SID)[1].timestamp = 0
    /\ \A i \in 1..14 :
          /\ ReadsIn(SID)[i].path = "/repo/file" \o ToString(i)
          /\ ~ReadsIn(SID)[i].blocked
    /\ ReadsIn(SID)[15] = ReadRecord("/repo/file15", 119, TRUE)

(***************************************************************************)
(* The read guard's sequential-reads warning (C21, C22).                   *)
(***************************************************************************)
\* last_sequential_warn of session s: the content of its read-state file,
\* or the default when there is none.
LastWarn(s) ==
    IF /\ ReadStateFile(s) \in DOMAIN fs
       /\ fs[ReadStateFile(s)].data.k = "reads"
    THEN fs[ReadStateFile(s)].data.rd.last_sequential_warn
    ELSE default_read_state.last_sequential_warn

\* Read guard p has emitted the sequential-reads warning.
Warned(p) == proc[p].kind = "read" /\ proc[p].dec.event = "warn"

\* C21: in a session that has had no sequential-reads warning, a Read of a
\* path not read before is allowed (exit 0) without the warning when fewer
\* than three earlier reads are in the window (the first three reads), and
\* allowed with the warning when three or more are (the fourth read inside
\* the window), up to the block at the fifteenth; a guard that has warned
\* exits 0.
C21_FourthReadWarns ==
    /\ [][\A p \in Procs :
            (/\ ReadDeciding(p)
             /\ LastWarn(proc[p].ev.session_id) = default_read_state.last_sequential_warn
             /\ EarlierOfPath(p, READ_TTL) = {})
            => IF Cardinality(EarlierInWindow(p)) + 1 < 4
               THEN ReadAllowed(p) /\ ~Warned(p)'
               ELSE IF Cardinality(EarlierInWindow(p)) + 1 < ESCALATION_THRESHOLD
               THEN /\ ReadAllowed(p)
                    /\ Warned(p)'
                    /\ proc'[p].st.rd.last_sequential_warn = now
               ELSE ReadBlocked(p)]_vars
    /\ [](\A p \in Procs :
            Warned(p) => /\ proc[p].dec.exit = 0
                         /\ proc[p].pc = "done" => proc[p].rc = 0)

\* Three reads of three files at 0 s were allowed without a warning; the
\* fourth, of a fourth file at 119 s, has been allowed with the warning.
C21_Witness ==
    /\ proc[1].pc = "done"
    /\ Warned(1)
    /\ proc[1].rc = 0
    /\ runs = 4
    /\ now = 119
    /\ LastWarn(SID) = 119
    /\ ReadsIn(SID) =
           <<ReadRecord("/repo/file1", 0, FALSE),
             ReadRecord("/repo/file2", 0, FALSE),
             ReadRecord("/repo/file3", 0, FALSE),
             ReadRecord("/repo/file4", 119, FALSE)>>

\* C22: a read guard warns only when the session's last warning is more
\* than SEQUENTIAL_WINDOW (120 s) old, so a Read that reaches the warn
\* threshold within 120 s of it emits nothing; last_sequential_warn is the
\* time of the warning when the guard warns and is left as it was when it
\* does not, and nothing else changes it.
C22_WarningsApart ==
    /\ [][\A p \in Procs :
            ReadDeciding(p) =>
                /\ Warned(p)' =>
                      now - LastWarn(proc[p].ev.session_id) > SEQUENTIAL_WINDOW
                /\ (/\ Cardinality(EarlierInWindow(p)) + 1 >= 4
                    /\ now - LastWarn(proc[p].ev.session_id) <= SEQUENTIAL_WINDOW)
                   => ~Warned(p)']_vars
    /\ [][\A p \in Procs :
            (proc[p].kind = "read" /\ proc[p].pc = "replace" /\ proc'[p].pc = "done")
            => LastWarn(proc[p].ev.session_id)' =
                   IF Warned(p) THEN now ELSE LastWarn(proc[p].ev.session_id)]_vars
    /\ [][LastWarn(SID)' # LastWarn(SID) =>
            \E p \in Procs : Warned(p) /\ proc[p].pc = "replace"]_vars

\* Four reads at 0 s, the fourth with the warning; three more at 119 s and
\* an eighth at 120 s, which is the fourth read of its window and 120 s
\* after the warning: no warning since, last_sequential_warn is still 0.
C22_Witness ==
    /\ proc[1].pc = "done"
    /\ proc[1].kind = "read"
    /\ ~Warned(1)
    /\ proc[1].rc = 0
    /\ runs = 8
    /\ now = 120
    /\ LastWarn(SID) = 0
    /\ Len(ReadsIn(SID)) = 8
    /\ ReadsIn(SID)[4].timestamp = 0
    /\ ReadsIn(SID)[5].timestamp = 119
    /\ ReadsIn(SID)[8] = ReadRecord("/repo/file8", 120, FALSE)

(***************************************************************************)
(* Damaged state files (C23).                                              *)
(***************************************************************************)
\* The step in which guard p takes its lock and loads its state file.
Loading(p) ==
    /\ proc[p].kind \in Guards
    /\ proc[p].pc = "lock"
    /\ proc'[p] # proc[p]

\* What guard p does in that step when its state file is absent.
AsAbsent(p) ==
    IF proc[p].kind = "read"
    THEN LoadedRead(proc[p], ReadsData(default_read_state)).proc
    ELSE Loaded(proc[p], StateData(default_state)).proc

\* C23: a guard that finds its state file damaged (holding what is not
\* JSON) goes on as if the file were absent, deciding on the default state,
\* and does not fail; the save that ends its run leaves a well-formed state
\* in the file.
C23_DamagedAsAbsent ==
    /\ [][\A p \in Procs :
            (/\ Loading(p)
             /\ Target(proc[p]) \in DOMAIN fs
             /\ fs[Target(proc[p])].data \in Damaged)
            => /\ proc'[p] = AsAbsent(p)
               /\ proc'[p].rc # 1]_vars
    /\ [][\A p \in Procs :
            (/\ proc[p].kind \in Guards
             /\ proc[p].pc = "replace"
             /\ proc'[p].pc = "done"
             /\ proc'[p].saved = "ok")
            => fs'[Target(proc[p])].data.k \in {"state", "reads"}]_vars

(***************************************************************************)
(* The spawn guard's stale sweep among concurrent hooks (C24).             *)
(***************************************************************************)
\* Spawn guard p unlinks the file it condemned, and the file is there.
SweepDeletes(p) ==
    /\ proc[p].kind = "spawn"
    /\ proc[p].pc = "unlink"
    /\ proc'[p].pc = "sweep"
    /\ proc[p].victim \in DOMAIN fs

\* Spawn guard p ends its sweep in this step.
SweepEnds(p) ==
    /\ proc'[p].kind = "spawn"
    /\ proc'[p].run # proc[p].run \/ proc[p].pc = "sweep"
    /\ proc'[p].pc \notin {"sweep", "unlink"}

\* C24: what the spawn guard's sweep deletes is neither audit.jsonl nor
\* audit.jsonl.1 and was last modified more than state_ttl_hours before,
\* whatever the hooks running beside it do; and when a sweep ends, no file
\* but the audit logs is left that is older than state_ttl_hours.
C24_SweepDeletesStaleOnly ==
    /\ [][\A p \in Procs :
            SweepDeletes(p) =>
                /\ proc[p].victim \notin {AUDIT_LOG, AUDIT_LOG \o ".1"}
                /\ fs[proc[p].victim].mtime < now - state_ttl_hours * 3600]_vars
    /\ [][\A p \in Procs :
            SweepEnds(p) =>
                \A f \in DOMAIN fs' \ {AUDIT_LOG, AUDIT_LOG \o ".1"} :
                    ~(fs'[f].mtime < now - state_ttl_hours * 3600)]_vars

(***************************************************************************)
(* Appends and rotation (C25).                                             *)
(***************************************************************************)
\* The records in a log of the directory.
Recs(f) == IF f \in DOMAIN fs THEN fs[f].data.log.recs ELSE {}

\* The records present in audit.jsonl or in audit.jsonl.1.
Present == Recs(AUDIT_LOG) \cup Recs(BACKUP)

\* Self-heal p unlinks the backup in this step.
Clobbers(p) == proc[p].pc = "backup" /\ proc'[p].pc = "rename"

\* Self-heal p renames audit.jsonl in this step.
Rotates(p) ==
    /\ proc[p].pc = "rename"
    /\ proc'[p].pc = "done"
    /\ AUDIT_LOG \in DOMAIN fs

\* C25: the record of an append that completes is in audit.jsonl or in
\* audit.jsonl.1 when the append returns, and a record that is there stays
\* there until a rotation unlinks the backup that holds it; a rotation
\* renames audit.jsonl only when it has more than AUDIT_MAX_LINES (10 000)
\* lines, and the whole of it becomes audit.jsonl.1.
C25_RotationKeepsRecords ==
    /\ [][Len(audit') > Len(audit) => Len(audit') \in Present']_vars
    /\ [][\A i \in Present \ Present' :
            \E p \in Procs : Clobbers(p) /\ i \in Recs(BACKUP)]_vars
    /\ [][\A p \in Procs :
            Rotates(p) =>
                /\ Lines(fs[AUDIT_LOG]) > AUDIT_MAX_LINES
                /\ AUDIT_LOG \notin DOMAIN fs'
                /\ fs'[BACKUP] = fs[AUDIT_LOG]]_vars

(***************************************************************************)
(* Self-heal's exit code (C26).                                            *)
(***************************************************************************)
\* C26: a self-heal run that has ended has ended with exit code 0, whatever
\* it met: a missing, malformed or unreadable config, damaged state files,
\* failing or timed-out smoke tests.
C26_HealExitsZero ==
    \A p \in Procs :
        (proc[p].kind = "heal" /\ proc[p].pc = "done") => proc[p].rc = 0

(***************************************************************************)
(* The necessity classifier on a paraphrase (C27).                         *)
(***************************************************************************)
Paraphrase == "find where this helper is used across all files"

\* The best similarity of the paraphrase's words to the canonical phrases,
\* and the phrase that has it.
ParaphraseBest == BestFuzzy(Split(Lower(Chars(Paraphrase) \o <<" ">>)), 1, <<0, 1>>, 0)

\* A spawn guard decides on a general-purpose spawn with the paraphrase as
\* description and no prompt, in a session with no agents and no blocked
\* attempts on record.
ParaphraseSpawn(p) ==
    /\ Deciding(p)
    /\ proc[p].ev.description = Paraphrase
    /\ proc[p].ev.prompt = ""
    /\ Persisted(proc[p].ev.session_id) = default_state

\* C27 as stated: the classifier blocks the paraphrase as fuzzy_search_grep,
\* so the spawn is blocked by the necessity rule with that pattern.
C27_ParaphraseBlocked ==
    [][\A p \in Procs :
        ParaphraseSpawn(p) =>
            /\ BlockedFor(p, "necessity_check")
            /\ proc'[p].dec.pattern = "fuzzy_search_grep"]_vars

\* C27 amended: the paraphrase matches none of the ten patterns and its best
\* word-level similarity to the canonical corpus is 8/15 (with "find where
\* this function is called", a search_grep phrase), below the threshold
\* 0.55: the classifier returns should_block = false with no pattern name,
\* and the spawn is allowed.
C27_ParaphraseAllowed ==
    /\ [](/\ NecessityOf[Paraphrase][""] = <<FALSE, "">>
          /\ ParaphraseBest[1][1] * 15 = ParaphraseBest[1][2] * 8
          /\ CANONICAL_DIRECT_TASKS[ParaphraseBest[2]].name = "search_grep"
          /\ ~FracGE(ParaphraseBest[1], FUZZY_THRESHOLD))
    /\ [][\A p \in Procs :
            ParaphraseSpawn(p) =>
                /\ proc'[p].dec.exit = 0
                /\ proc'[p].dec.event = "allow"
                /\ proc'[p].dec.pattern = ""]_vars

\* The spawn with the paraphrase as description has been allowed and is
\* the session's first agent.
C27_Witness ==
    /\ proc[1].pc = "done"
    /\ proc[1].kind = "spawn"
    /\ proc[1].ev.description = Paraphrase
    /\ proc[1].rc = 0
    /\ proc[1].dec.event = "allow"
    /\ Persisted(SID).agent_count = 1
    /\ Persisted(SID).agents[1].description = Paraphrase

(***************************************************************************)
(* The read guard and the session id (C28).                                *)
(***************************************************************************)
\* C28: a read-guard event whose session id (a string) does not match
\* [A-Za-z0-9_-]{8,64} exits 2, and no read-state file or lock file is
\* derived from the id.
C28_ReadInvalidIdRejected ==
    \A p \in Procs :
        (/\ proc[p].pc = "done"
         /\ proc[p].kind = "read"
         /\ proc[p].ev.json = "obj"
         /\ proc[p].ev.sid_is_str
         /\ ~ValidSessionId(proc[p].ev.session_id))
        => /\ proc[p].rc = 2
           /\ ReadStateFile(proc[p].ev.session_id) \notin DOMAIN fs
           /\ LockFile(ReadStateFile(proc[p].ev.session_id)) \notin DOMAIN fs

(***************************************************************************)
(* Locks and termination (C29).                                            *)
(***************************************************************************)
\* Hook p is running.
Running(p) == proc[p].pc \notin {"idle", "done"}

\* The lock file hook p is about to lock, if it is about to lock one: its
\* own at "lock", the spawn guard's at "explore".
Wanted(p) ==
    IF proc[p].pc = "explore" THEN LockFile(StateFile(proc[p].ev.session_id))
    ELSE LockFile(Target(proc[p]))

\* Hook p waits for a lock that hook q holds.
WaitsFor(p, q) ==
    /\ p # q
    /\ proc[p].pc \in {"lock", "explore"}
    /\ proc[q].locked
    /\ IF proc[p].pc = "lock" THEN proc[q].lf = proc[p].lf
       ELSE /\ Wanted(p) \in DOMAIN fs
            /\ proc[q].lf = fs[Wanted(p)].ino

\* No hook waits, a hook that has exited holds no lock, a lock is held on
\* the hook's own state file only, and the one lock taken while it is held
\* is the spawn-state lock a read guard takes.
LockDiscipline ==
    /\ \A p \in Procs : ~Running(p) => ~proc[p].locked /\ proc[p].lf = 0
    /\ \A p \in Procs : proc[p].locked => proc[p].pc \in {"explore", "replace"}
    /\ \A p \in Procs : proc[p].pc = "explore" => proc[p].kind = "read"
    /\ \A p, q \in Procs : WaitsFor(p, q) => ~WaitsFor(q, p)
    /\ (\E p \in Procs : Running(p)) => \E q \in Procs : ENABLED Run(q)

Swept(s) ==
    /\ StateFile(s) \in DOMAIN fs
    /\ StateFile(s) \notin DOMAIN fs'
    /\ \E p \in Procs :
          /\ proc[p].kind = "spawn"
          /\ proc[p].pc = "unlink"
          /\ proc[p].victim = StateFile(s)
          /\ proc'[p].pc = "sweep"

Ordered(state) ==
    \A i \in 1..Len(state.agents) : \A j \in i..Len(state.agents) :
        state.agents[i].timestamp <= state.agents[j].timestamp

\* C31: in every session state in the directory (a state file, or the temp
\* file of a save under way) the agents' timestamps are non-decreasing in
\* list order, also when spawn guards of the session run together and the
\* clock goes on while they run.
C31_TimestampsOrdered ==
    \A f \in DOMAIN fs : fs[f].data.k = "state" => Ordered(fs[f].data.st)

\* Guards of the session run together while ten seconds pass: one holds
\* the lock with its save under way, its temp file holding the agent of an
\* earlier guard, stamped 0, and its own, stamped 10; the other waits for
\* the same lock.
C31_Witness ==
    /\ \E p \in Procs : \E q \in Procs \ {p} :
          /\ proc[p].pc = "replace"
          /\ proc[p].locked
          /\ proc[q].pc = "lock"
          /\ proc[q].lf = proc[p].lf
          /\ TmpFile(proc[p].run) \in DOMAIN fs
          /\ Len(fs[TmpFile(proc[p].run)].data.st.agents) = 2
          /\ fs[TmpFile(proc[p].run)].data.st.agents[1].timestamp = 0
          /\ fs[TmpFile(proc[p].run)].data.st.agents[2].timestamp = 10
    /\ StateFile(SID) \in DOMAIN fs
    /\ Len(Persisted(SID).agents) = 1

(***************************************************************************)
(* The blocks of the rule cascade (C32-C35).                               *)
(***************************************************************************)
\* The audit reason tags of R1-R7, in the order of the rules.
RuleTags ==
    <<"one_per_session limit", "max_per_type limit", "session_cap limit",
      "parallel_window limit", "necessity_check", "type_switching",
      "global_cooldown">>

\* The step in which spawn guard p exits on a block by one of R1-R7.
RuleBlockExit(p) ==
    /\ proc[p].kind = "spawn"
    /\ proc[p].pc \in {"lock", "replace"}
    /\ proc'[p].pc = "done"
    /\ proc'[p].dec.event = "block"
    /\ \E n \in 1..7 : proc'[p].dec.reason = RuleTags[n]

\* The blocked attempts of a state that are younger than 300 s at time t.
Young(state, t) ==
    SelectSeq(state.blocked_attempts,
              LAMBDA a : t - a.timestamp < BLOCKED_ATTEMPTS_TTL)

\* C32: a guard that exits on a block by one of R1-R7 exits with code 2,
\* and when it exits the session-state file holds the state it found with
\* agent_count and agents as they were and with exactly one record more in
\* blocked_attempts (after the attempts it found that are still young):
\* the type and the description of the event and the time of the decision.
C32_BlockRecorded ==
    [][\A p \in Procs : RuleBlockExit(p) =>
          LET s      == proc[p].ev.session_id
              before == Persisted(s)
              after  == Persisted(s)'
          IN  /\ proc'[p].rc = 2
              /\ StateFile(s) \in DOMAIN fs'
              /\ fs'[StateFile(s)].data.k = "state"
              /\ after.agent_count = before.agent_count
              /\ after.agents = before.agents
              /\ after.blocked_attempts =
                     Append(Young(before, now),
                            [type |-> proc[p].ev.subagent_type,
                             description |-> proc[p].ev.description,
                             timestamp |-> now])]_vars

\* An Explore spawn was allowed, a second one blocked by R1, and a
\* general-purpose spawn with the same description blocked by R6: the
\* state file holds the one agent and the two blocked attempts.
C32_Witness ==
    /\ proc[1].pc = "done"
    /\ proc[1].rc = 2
    /\ proc[1].dec.reason = "type_switching"
    /\ proc[1].saved = "ok"
    /\ Persisted(SID).agent_count = 1
    /\ Len(Persisted(SID).agents) = 1
    /\ Persisted(SID).blocked_attempts =
           <<[type |-> "Explore", description |-> "first", timestamp |-> 0],
             [type |-> "general-purpose", description |-> "first", timestamp |-> 0]>>

\* The block condition of rule Rn on a loaded state, for event e at time t.
Holds(n, state, e, t) ==
    LET type == e.subagent_type
        same == AgentsOf(state, type)
    IN  IF n = 1 THEN type \in one_per_session /\ same # {}
        ELSE IF n = 2
        THEN type \notin one_per_session /\ Cardinality(same) >= max_per_subagent_type
        ELSE IF n = 3 THEN state.agent_count >= max_agents
        ELSE IF n = 4
        THEN \E i \in same : t - state.agents[i].timestamp < parallel_window_seconds
        ELSE IF n = 5 THEN NecessityOf[e.description][e.prompt][1]
        ELSE IF n = 6
        THEN \E i \in 1..Len(state.blocked_attempts) :
                LET a == state.blocked_attempts[i] IN
                /\ t - a.timestamp < BLOCKED_ATTEMPTS_TTL
                /\ a.type # type
                /\ FracGT(SimilarityOf[e.description][a.description], <<6, 10>>)
        ELSE \E i \in NonTeam(state) :
                /\ \A j \in NonTeam(state) :
                      state.agents[j].timestamp <= state.agents[i].timestamp
                /\ t - state.agents[i].timestamp < global_cooldown_seconds

\* The rules whose block condition holds.
Held(state, e, t) == {n \in 1..7 : Holds(n, state, e, t)}

\* The lowest-numbered of a set of rules.
First(rules) == CHOOSE n \in rules : \A m \in rules : n <= m

\* C33: a spawn outside a team that reaches the cascade is blocked when the
\* block condition of some rule of R1-R7 holds for the loaded state, and
\* allowed when none does; a blocked one leaves one audit record, a block
\* whose reason is the tag of the lowest-numbered rule whose condition
\* holds; and the seven tags are pairwise distinct.
C33_FirstRuleBlocks ==
    /\ [](\A m \in 1..7 : \A n \in 1..7 : m # n => RuleTags[m] # RuleTags[n])
    /\ [][\A p \in Procs :
            LET e    == proc[p].ev
                held == Held(Persisted(e.session_id), e, now)
            IN  /\ (Deciding(p) /\ e.team_name = "") =>
                       IF held = {}
                       THEN proc'[p].dec.exit = 0 /\ proc'[p].dec.event = "allow"
                       ELSE BlockedFor(p, RuleTags[First(held)])
                /\ (RuleBlockExit(p) /\ e.team_name = "") =>
                       /\ held # {}
                       /\ Len(audit') = Len(audit) + 1
                       /\ audit'[Len(audit')].event = "block"
                       /\ audit'[Len(audit')].type = e.subagent_type
                       /\ audit'[Len(audit')].reason = RuleTags[First(held)]]_vars

\* Two team spawns have filled the session, one of them an Explore; an
\* Explore spawn outside a team at the same instant meets the conditions
\* of R1, R3 and R4 and is blocked as one_per_session.
C33_Witness ==
    /\ proc[1].pc = "done"
    /\ proc[1].rc = 2
    /\ proc[1].ev = Task(SID, "Explore", "first", "")
    /\ Persisted(SID).agent_count = max_agents
    /\ \A i \in 1..Len(Persisted(SID).agents) :
          now - Persisted(SID).agents[i].timestamp < parallel_window_seconds
    /\ audit[Len(audit)].event = "block"
    /\ audit[Len(audit)].reason = "one_per_session limit"

(***************************************************************************)
(* The age of the persisted blocked attempts (C34).                        *)
(***************************************************************************)
\* The step in which spawn guard p, having taken the session lock and
\* decided, exits: after an allow or a block by a rule (from the save) or
\* after the cap block of the team path (from the decision).
LockedExit(p) ==
    /\ proc[p].kind = "spawn"
    /\ proc[p].pc \in {"lock", "replace"}
    /\ proc'[p].pc = "done"
    /\ proc'[p].dec.event \in {"allow", "allow_team", "block"}

\* No blocked attempt of the state is 300 s old or older at time t.
AllYoung(state, t) ==
    \A i \in 1..Len(state.blocked_attempts) :
        t - state.blocked_attempts[i].timestamp < BLOCKED_ATTEMPTS_TTL

\* C34 as stated: after every invocation that takes the session lock
\* (allow, team allow, team cap block, block by a rule) the persisted
\* blocked_attempts holds no entry 300 s old or older.
C34_PrunedOnEveryTouch ==
    [][\A p \in Procs : LockedExit(p) =>
          AllYoung(Persisted(proc[p].ev.session_id)', now)]_vars

\* C34 amended: after every invocation that saves the state (allow, team
\* allow, block by one of R1-R7) the persisted blocked_attempts holds no
\* entry 300 s old or older; the cap block of the team path prunes the
\* state it loaded but does not save it, and leaves the session-state file
\* as it was, entries of any age included.
C34_PrunedOnEverySave ==
    [][\A p \in Procs : LockedExit(p) =>
          LET s == proc[p].ev.session_id IN
          IF proc'[p].dec.reason = "team_session_cap"
          THEN Same(StateFile(s))
          ELSE AllYoung(Persisted(s)', now)]_vars

\* A session filled by two team spawns holds a blocked attempt of second 0;
\* at second 300 a team spawn has been blocked by the cap, and the
\* attempt, 300 s old, is still in the session-state file.
C34_Witness ==
    /\ now = BLOCKED_ATTEMPTS_TTL
    /\ proc[1].pc = "done"
    /\ proc[1].rc = 2
    /\ proc[1].dec.reason = "team_session_cap"
    /\ Len(Persisted(SID).blocked_attempts) = 1
    /\ Persisted(SID).blocked_attempts[1].timestamp = 0

(***************************************************************************)
(* The type-switching detection (C35).                                     *)
(***************************************************************************)
\* The similarity ratio of two descriptions as sequences of lowercased
\* words, tabulated over the texts of the model.
WordSimilarityOf ==
    [d \in Texts |-> [a \in Texts |->
        ratio(Split(Lower(Chars(d))), Split(Lower(Chars(a))))]]

\* Guard p decides on a spawn outside a team that R1-R5 do not block.
PassedR5(p) ==
    LET e == proc[p].ev IN
    /\ Deciding(p)
    /\ e.team_name = ""
    /\ \A n \in 1..5 : ~Holds(n, Persisted(e.session_id), e, now)

\* The loaded state holds a blocked attempt younger than 300 s, of another
\* type than the event's, whose description is similar to the event's by
\* the given table of ratios.
Resembles(p, similarity) ==
    LET e     == proc[p].ev
        state == Persisted(e.session_id)
    IN  \E i \in 1..Len(state.blocked_attempts) :
            LET a == state.blocked_attempts[i] IN
            /\ now - a.timestamp < BLOCKED_ATTEMPTS_TTL
            /\ a.type # e.subagent_type
            /\ FracGT(similarity[e.description][a.description], <<6, 10>>)

\* C35 as stated: R6 blocks a spawn outside a team that passed R1-R5 if
\* and only if a blocked attempt younger than 300 s has a different type
\* and a description whose word-level similarity ratio with the new
\* description is above 0.6.
C35_WordSimilarity ==
    [][\A p \in Procs : PassedR5(p) =>
          (BlockedFor(p, "type_switching") <=> Resembles(p, WordSimilarityOf))]_vars

\* C35 amended: the ratio R6 compares with 0.6 is that of the two
\* lowercased descriptions as sequences of characters.
C35_CharSimilarity ==
    [][\A p \in Procs : PassedR5(p) =>
          (BlockedFor(p, "type_switching") <=> Resembles(p, SimilarityOf))]_vars

\* A Plan spawn "fix login" was blocked by the cooldown; five seconds later
\* a code-reviewer spawn "fix logout" (character ratio 14/19, word ratio
\* 2/4 with "fix login") has been blocked by R6.
C35_Witness ==
    /\ now = global_cooldown_seconds
    /\ proc[1].pc = "done"
    /\ proc[1].rc = 2
    /\ proc[1].ev = Task(SID, "code-reviewer", "fix logout", "")
    /\ proc[1].dec.reason = "type_switching"
    /\ Persisted(SID).blocked_attempts =
           <<[type |-> "Plan", description |-> "fix login", timestamp |-> 0],
             [type |-> "code-reviewer", description |-> "fix logout",
              timestamp |-> global_cooldown_seconds]>>
    /\ SimilarityOf["fix logout"]["fix login"] = <<14, 19>>
    /\ WordSimilarityOf["fix logout"]["fix login"] = <<2, 4>>

(***************************************************************************)
(* The state files of the two guards (C36).                                *)
(***************************************************************************)
\* The session ids of the model that match [A-Za-z0-9_-]{8,64} as a whole.
ValidIds == {s \in SessionIds : ValidSessionId(s)}

\* The step in which guard p, run for a valid session id, takes its lock
\* and loads what is at the path of its state file.
LoadsState(p) ==
    /\ proc[p].kind \in Guards
    /\ proc[p].pc = "lock"
    /\ proc'[p] # proc[p]
    /\ ValidSessionId(proc[p].ev.session_id)

\* The state files of the other guard, over the valid session ids.
OthersFiles(p) ==
    IF proc[p].kind = "read" THEN {StateFile(s) : s \in ValidIds}
    ELSE {ReadStateFile(s) : s \in ValidIds}

\* C36: the spawn guard's state file of a valid session id is the read
\* guard's state file of no valid session id, and the other way round; so
\* the path a guard loads its state from is not a state file of the other
\* guard, and the guard finds there, if anything, a state of its own kind:
\* the spawn guard a session state, the read guard a read state.
C36_DisjointStateFiles ==
    [][\A p \in Procs : LoadsState(p) =>
          /\ Target(proc[p]) \notin OthersFiles(p)
          /\ Target(proc[p]) \in DOMAIN fs =>
                 fs[Target(proc[p])].data.k =
                     (IF proc[p].kind = "read" THEN "reads" ELSE "state")]_vars

(***************************************************************************)
(* The retry of a spawn that the cooldown blocked (C37).                   *)
(***************************************************************************)
\* Guard p decides on a spawn outside a team, and the invocation before it
\* was of the identical event (same session, type and description) and
\* was blocked by R7, the last rule of the cascade: the last record of
\* the audit log tells.
RetryAfterCooldown(p) ==
    LET e == proc[p].ev IN
    /\ Deciding(p)
    /\ e.team_name = ""
    /\ Len(audit) > 0
    /\ audit[Len(audit)] =
           AuditEntry("block", e.subagent_type, e.description, e.session_id,
                      "global_cooldown", "")

\* C37: the retry of a spawn that only R7 blocked, with no other event of
\* the session in between, is allowed once the most recent non-team agent
\* is global_cooldown_seconds old; the record of the blocked attempt, which
\* is of the retry's own type, does not make R6 block it.
C37_RetryAllowed ==
    [][\A p \in Procs :
          LET state == Persisted(proc[p].ev.session_id) IN
          (/\ RetryAfterCooldown(p)
           /\ \A i \in NonTeam(state) :
                 now - state.agents[i].timestamp >= global_cooldown_seconds)
          => /\ proc'[p].dec.exit = 0
             /\ proc'[p].dec.event = "allow"
             /\ proc'[p].dec.st.agent_count = state.agent_count + 1]_vars

\* A Plan spawn "fix login" was blocked by the cooldown three seconds after
\* the session's Explore spawn; its retry two seconds later has been
\* allowed, the record of the blocked attempt being in the state.
C37_Witness ==
    /\ now = global_cooldown_seconds
    /\ proc[1].pc = "done"
    /\ proc[1].rc = 0
    /\ proc[1].ev = Task(SID, "Plan", "fix login", "")
    /\ Len(audit) = 3
    /\ audit[2] = AuditEntry("block", "Plan", "fix login", SID, "global_cooldown", "")
    /\ audit[3] = AuditEntry("allow", "Plan", "fix login", SID, "", "")
    /\ Persisted(SID).agent_count = 2
    /\ Persisted(SID).agents[2].type = "Plan"
    /\ Persisted(SID).blocked_attempts =
           <<[type |-> "Plan", description |-> "fix login", timestamp |-> 3]>>

(***************************************************************************)
(* The agent records of team spawns in the rules (C38).                    *)
(***************************************************************************)
\* The agent records of a state that team spawns created.
Team(state) == {i \in 1..Len(state.agents) : state.agents[i].team # ""}

WasBlocked(p) ==
    LET reads == ReadsIn(proc[p].ev.session_id) IN
    \E i \in 1..Len(reads) :
        reads[i].path = proc[p].ev.file_path /\ reads[i].blocked

\* C39: a blocked Read leaves a record with blocked = true, and the
\* records of blocked attempts count like those of allowed reads.  A retry
\* of a path that was blocked is blocked again as long as two recorded
\* attempts of the path, blocked or not, are younger than 300 s, and is
\* no longer blocked as a duplicate once fewer than two are; and a Read is
\* blocked when fourteen recorded attempts, blocked ones among them, are
\* younger than 120 s.
C39_BlockedAttemptsCount ==
    /\ [][\A p \in Procs :
            ReadDeciding(p) =>
                LET reads  == ReadsIn(proc[p].ev.session_id)
                    ofpath == Cardinality(EarlierOfPath(p, READ_TTL))
                    recent == Cardinality(EarlierInWindow(p)) + 1
                IN  /\ (WasBlocked(p) /\ ofpath >= DUPLICATE_FILE_LIMIT - 1) =>
                           ReadBlocked(p)
                    /\ (/\ WasBlocked(p)
                        /\ ofpath < DUPLICATE_FILE_LIMIT - 1
                        /\ recent < ESCALATION_THRESHOLD) => ReadAllowed(p)
                    /\ (/\ \E i \in EarlierInWindow(p) : reads[i].blocked
                        /\ recent >= ESCALATION_THRESHOLD) => ReadBlocked(p)]_vars
    /\ [][\A p \in Procs :
            (/\ proc[p].kind = "read"
             /\ proc[p].pc = "replace"
             /\ proc'[p].pc = "done"
             /\ proc'[p].rc = 2)
            => LET reads == ReadsIn(proc[p].ev.session_id)' IN
               /\ Len(reads) > 0
               /\ reads[Len(reads)] = ReadRecord(proc[p].ev.file_path, now, TRUE)]_vars

\* /repo/auth.ts was read at seconds 0 and 119 and blocked at second 120;
\* at second 300 the read of second 0 is out of the records, and the retry
\* has been blocked on the read of second 119 and the blocked attempt of
\* second 120.
C39_Witness ==
    /\ now = READ_TTL
    /\ proc[1].pc = "done"
    /\ proc[1].kind = "read"
    /\ proc[1].rc = 2
    /\ LET reads == ReadsIn(SID) IN
       /\ Len(reads) > 2
       /\ reads[1] = ReadRecord("/repo/auth.ts", 119, FALSE)
       /\ \E i \in 2..(Len(reads) - 1) : reads[i] = ReadRecord("/repo/auth.ts", 120, TRUE)
       /\ reads[Len(reads)] = ReadRecord("/repo/auth.ts", READ_TTL, TRUE)
       /\ \A i \in 1..Len(reads) :
             reads[i].path = "/repo/auth.ts" => i = 1 \/ reads[i].blocked

(***************************************************************************)
(* An allowed spawn in the persisted state (C40).                          *)
(***************************************************************************)
\* The step in which spawn guard p exits with code 0 after the allow path
\* of the cascade or of the team path.
AllowExit(p) ==
    /\ proc[p].kind = "spawn"
    /\ proc[p].pc \in {"lock", "replace"}
    /\ proc'[p].pc = "done"
    /\ proc'[p].rc = 0
    /\ proc'[p].dec.event \in {"allow", "allow_team"}

\* C40: when a guard that allowed a spawn (exit 0, audited allow or
\* allow_team) has exited, the session-state file holds the state with
\* the spawn's agent record in agents and counted in agent_count, whatever
\* self-heal's state-health phase and the stale sweeps of other hooks do
\* while the guard saves.
C40_AllowedIsPersisted ==
    [][\A p \in Procs : AllowExit(p) =>
          LET s     == proc[p].ev.session_id
              after == Persisted(s)'
          IN  /\ StateFile(s) \in DOMAIN fs'
              /\ fs'[StateFile(s)].data.k = "state"
              /\ \E i \in 1..Len(after.agents) :
                    after.agents[i] = Allowed(proc'[p].dec)
              /\ after.agent_count = Len(after.agents)
              /\ after.agent_count >= 1]_vars

====
